---- MODULE Spec2Model ----
(***************************************************************************)
(* Model of the boost attribute codec and symbol-table engine of m3:       *)
(* core.SymTable, core.M3DBSymStreamWriter, core.M3DBSymStreamReader,      *)
(* client.BoostSession and client.BoostSeriesIterator.                     *)
(***************************************************************************)
EXTENDS Integers, Sequences, FiniteSets, TLC

VARIABLES
    sym,            \* the core.SymTable driven through its public methods
    stream,         \* records on the symbol-table stream, in timestamp order
    lastOp,         \* the last SymTable method called and what it returned
    opCount,        \* number of calls made so far
    calls,          \* the SymTable methods called so far, with the error returned
    rd,             \* the state of one BoostSession.readSymTableStream call
    pendingWrites,  \* M3DBSymStreamWriter.pendingWrites
    tasks,          \* the goroutines started by the Write*Instruction calls
    wait,           \* the state of one M3DBSymStreamWriter.Wait call
    points,         \* the data points written by WriteValueWithTaggedAttributes
    family,         \* one M3DBSeriesFamily and the callers of its WriteTagged
    otherTable,     \* a second SymTable: the argument of IsSame, and the table in
                    \* the cache of a second BoostSession
    bsi,            \* one BoostSeriesIterator of the second BoostSession
    codec,          \* one instruction on its way through the encoder and the decoder
    bs              \* the lock of one BoostSession and the threads calling it

tableVars == <<sym, lastOp, opCount, calls>>
writerVars == <<pendingWrites, tasks, wait>>
vars == <<sym, stream, lastOp, opCount, calls, rd, pendingWrites, tasks, wait, points, family,
         otherTable, bsi, codec, bs>>

(***************************************************************************)
(* Bounds of the model.                                                    *)
(***************************************************************************)
MaxOps == 3
MaxStreamLen == 4
MaxWrites == 2
MaxFamilyWrites == 5

Values == {"a", "b"}
Names == {"host", "dc"}
ValueIds == 0..(Cardinality(Values) - 1)
ValueLists == UNION {[1..k -> Values] : k \in 0..Cardinality(Values)}
IdLists == UNION {[1..k -> ValueIds] : k \in 0..Cardinality(ValueIds)}

(***************************************************************************)
(* core.TableInstruction and core.AttributeEncoding.                       *)
(***************************************************************************)
InitSymTable == 0
UpdateSymTable == 1
AddAttribute == 2
EndSymTable == 3
NOPInstruction == 4

UnsignedNumericValue == 0
DictionaryEncodedValue == 1

EmptyFn == [x \in {} |-> 0]

SeqsUpTo(S, n) == UNION {[1..k -> S] : k \in 0..n}

(***************************************************************************)
(* core.SymTable                                                           *)
(***************************************************************************)
NewSymTable(version, streamWriter) ==
    [version |-> version,
     instructionSeqNum |-> 0,
     finalized |-> FALSE,
     dictToString |-> EmptyFn,
     dictToIndex |-> EmptyFn,
     header |-> EmptyFn,
     attributeTable |-> EmptyFn,
     streamWriter |-> streamWriter]

NewAttributeTable ==
    [encodingType |-> DictionaryEncodedValue,
     encodedValues |-> <<>>,
     encodedValuesFromIndex |-> EmptyFn]

(***************************************************************************)
(* An instruction record as M3DBSymStreamWriter encodes it: the header     *)
(* (version, instruction, sequence number) and the instruction parameters. *)
(***************************************************************************)
Record(version, instruction, seq, values, name, encoding, ids) ==
    [version |-> version, instruction |-> instruction, seq |-> seq,
     values |-> values, name |-> name, encoding |-> encoding, ids |-> ids]

WriteInitInstruction(version, attributeValues) ==
    Record(version, InitSymTable, 1, attributeValues, "", 0, <<>>)

WriteUpdateInstruction(version, sequenceNum, attributeValues) ==
    Record(version, UpdateSymTable, sequenceNum, attributeValues, "", 0, <<>>)

WriteAttributeInstruction(version, sequenceNum, attributeName, encodingType, indexValues) ==
    Record(version, AddAttribute, sequenceNum, <<>>, attributeName, encodingType, indexValues)

WriteEndInstruction(version, sequenceNum) ==
    Record(version, EndSymTable, sequenceNum, <<>>, "", 0, <<>>)

(***************************************************************************)
(* Accessors of core.SymTable.                                             *)
(***************************************************************************)
AttributeValueExists(t, value) == value \in DOMAIN t.dictToIndex

FindAttributeIndex(t, name, value) ==
    IF name \notin DOMAIN t.attributeTable THEN -1
    ELSE IF value \notin DOMAIN t.dictToIndex THEN -1
    ELSE LET dictIndex == t.dictToIndex[value] IN
         IF dictIndex \in DOMAIN t.attributeTable[name].encodedValuesFromIndex
         THEN t.attributeTable[name].encodedValuesFromIndex[dictIndex]
         ELSE -1

FindAttributeValue(t, name, index) ==
    IF name \notin DOMAIN t.attributeTable THEN ""
    ELSE IF index >= Len(t.attributeTable[name].encodedValues) THEN ""
    ELSE LET dictIndex == t.attributeTable[name].encodedValues[index + 1] IN
         IF dictIndex \in DOMAIN t.dictToString THEN t.dictToString[dictIndex] ELSE ""

\* as GetIndexedHeader, without the initial -1 of a slot: the slot of an
\* attribute that the map lacks keeps the zero value
GetIndexedHeader_NoSentinel(t, attributes) ==
    LET n == Cardinality(DOMAIN t.header)
        slot(i) ==
            LET name == CHOOSE nm \in DOMAIN t.header : t.header[nm] = i IN
            IF name \in DOMAIN attributes
            THEN FindAttributeIndex(t, name, attributes[name])
            ELSE 0
        header == [i \in 1..n |-> IF \E nm \in DOMAIN t.header : t.header[nm] = i - 1
                                  THEN slot(i - 1) ELSE 0]
    IN  IF n = 0 THEN [header |-> <<>>, hasMissing |-> TRUE]
        ELSE [header |-> header,
              hasMissing |-> \E nm \in DOMAIN t.header :
                                 \/ nm \notin DOMAIN attributes
                                 \/ FindAttributeIndex(t, nm, attributes[nm]) = -1]

\* attributes is a function from attribute names to values (a Go map)
GetIndexedHeader(t, attributes) ==
    LET n == Cardinality(DOMAIN t.header)
        slot(i) ==
            LET name == CHOOSE nm \in DOMAIN t.header : t.header[nm] = i IN
            IF name \in DOMAIN attributes
            THEN FindAttributeIndex(t, name, attributes[name])
            ELSE -1
        header == [i \in 1..n |-> IF \E nm \in DOMAIN t.header : t.header[nm] = i - 1
                                  THEN slot(i - 1) ELSE 0]
    IN  IF n = 0 THEN [header |-> <<>>, hasMissing |-> TRUE]
        ELSE [header |-> header,
              hasMissing |-> \E nm \in DOMAIN t.header :
                                 \/ nm \notin DOMAIN attributes
                                 \/ FindAttributeIndex(t, nm, attributes[nm]) = -1]

GetAttributesFromIndexedHeader(t, header) ==
    LET present == {nm \in DOMAIN t.header :
                       /\ t.header[nm] < Len(header)
                       /\ header[t.header[nm] + 1] # -1}
    IN  [nm \in present |-> FindAttributeValue(t, nm, header[t.header[nm] + 1])]

IsSame(t, other) ==
    /\ Cardinality(DOMAIN t.dictToString) = Cardinality(DOMAIN other.dictToString)
    /\ \A k \in DOMAIN t.dictToString :
           (IF k \in DOMAIN other.dictToString THEN other.dictToString[k] ELSE "")
               = t.dictToString[k]
    /\ Cardinality(DOMAIN t.attributeTable) = Cardinality(DOMAIN other.attributeTable)
    /\ \A k \in DOMAIN t.attributeTable :
           /\ k \in DOMAIN other.attributeTable
           /\ t.attributeTable[k].encodingType = other.attributeTable[k].encodingType
           /\ Len(t.attributeTable[k].encodedValues)
                  = Len(other.attributeTable[k].encodedValues)
           /\ \A i \in 1..Len(t.attributeTable[k].encodedValues) :
                  t.attributeTable[k].encodedValues[i]
                      = other.attributeTable[k].encodedValues[i]

(***************************************************************************)
(* Modifiers of core.SymTable.  Each returns the table after the call, the *)
(* error returned ("nil" for none) and the records handed to the stream    *)
(* writer.                                                                 *)
(***************************************************************************)
RECURSIVE UpdateDictionaryLoop(_, _, _)
UpdateDictionaryLoop(t, attributeValues, indexValue) ==
    IF attributeValues = <<>> THEN [sym |-> t, err |-> "nil"]
    ELSE LET attributeValue == Head(attributeValues) IN
         IF indexValue \in DOMAIN t.dictToString
         THEN [sym |-> t, err |-> "IndexExists"]
         ELSE IF attributeValue \in DOMAIN t.dictToIndex
         THEN [sym |-> t, err |-> "DuplicateValue"]
         ELSE UpdateDictionaryLoop(
                  [t EXCEPT !.dictToString = (indexValue :> attributeValue) @@ @,
                            !.dictToIndex = (attributeValue :> indexValue) @@ @],
                  Tail(attributeValues), indexValue + 1)

UpdateDictionary(t, attributeValues) ==
    IF Len(attributeValues) = 0
    THEN [sym |-> t, err |-> "EmptyInput", emit |-> <<>>]
    ELSE LET r == UpdateDictionaryLoop(t, attributeValues,
                                       Cardinality(DOMAIN t.dictToString))
         IN  IF r.err # "nil"
             THEN [sym |-> r.sym, err |-> r.err, emit |-> <<>>]
             ELSE IF ~r.sym.finalized /\ r.sym.streamWriter
             THEN [sym |-> [r.sym EXCEPT !.instructionSeqNum = @ + 1],
                   err |-> "nil",
                   emit |-> << IF r.sym.instructionSeqNum = 0
                               THEN WriteInitInstruction(r.sym.version, attributeValues)
                               ELSE WriteUpdateInstruction(
                                        r.sym.version,
                                        r.sym.instructionSeqNum + 1,
                                        attributeValues) >>]
             ELSE [sym |-> r.sym, err |-> "nil", emit |-> <<>>]

\* as updateStreamWithAttributeInstructionParam, without the increment of the
\* sequence number after the write
updateStreamWithAttributeInstructionParam_NoIncrement(t, name, indices) ==
    IF t.streamWriter /\ ~t.finalized
    THEN [sym |-> t,
          err |-> "nil",
          emit |-> << WriteAttributeInstruction(
                          t.version, t.instructionSeqNum + 1, name,
                          DictionaryEncodedValue, indices) >>]
    ELSE [sym |-> t, err |-> "nil", emit |-> <<>>]

updateStreamWithAttributeInstructionParam(t, name, indices) ==
    IF t.streamWriter /\ ~t.finalized
    THEN [sym |-> [t EXCEPT !.instructionSeqNum = @ + 1],
          err |-> "nil",
          emit |-> << WriteAttributeInstruction(
                          t.version, t.instructionSeqNum + 1, name,
                          DictionaryEncodedValue, indices) >>]
    ELSE [sym |-> t, err |-> "nil", emit |-> <<>>]

\* creation of the attribute table and of its header slot, shared by
\* InsertAttributeValue and InsertAttributeIndices
EnsureAttribute(t, name) ==
    IF name \in DOMAIN t.attributeTable THEN t
    ELSE [t EXCEPT !.attributeTable = (name :> NewAttributeTable) @@ @,
                   !.header = (name :> Cardinality(DOMAIN t.header)) @@ @]

\* append of one value-id to the forward and reverse mapping of an attribute
AppendIndex(t, name, id) ==
    [t EXCEPT !.attributeTable[name] =
        [@ EXCEPT !.encodedValues = Append(@, id),
                  !.encodedValuesFromIndex =
                      (id :> Cardinality(DOMAIN t.attributeTable[name].encodedValuesFromIndex))
                          @@ @]]

\* as InsertAttributeValue, with the id of a new value taken one past the
\* cardinality of the dictionary
InsertAttributeValue_IdOffByOne(t, name, value) ==
    LET t1 == IF value \in DOMAIN t.dictToIndex THEN t
              ELSE LET id == Cardinality(DOMAIN t.dictToIndex) + 1 IN
                   [t EXCEPT !.dictToIndex = (value :> id) @@ @,
                             !.dictToString = (id :> value) @@ @]
        t2 == EnsureAttribute(t1, name)
        id == t2.dictToIndex[value]
        t3 == IF id \in DOMAIN t2.attributeTable[name].encodedValuesFromIndex THEN t2
              ELSE AppendIndex(t2, name, id)
    IN  updateStreamWithAttributeInstructionParam(t3, name, <<id>>)

\* as InsertAttributeValue, appending the id also when the attribute
\* already indexes it
InsertAttributeValue_AlwaysAppend(t, name, value) ==
    LET t1 == IF value \in DOMAIN t.dictToIndex THEN t
              ELSE LET id == Cardinality(DOMAIN t.dictToIndex) IN
                   [t EXCEPT !.dictToIndex = (value :> id) @@ @,
                             !.dictToString = (id :> value) @@ @]
        t2 == EnsureAttribute(t1, name)
        id == t2.dictToIndex[value]
        t3 == AppendIndex(t2, name, id)
    IN  updateStreamWithAttributeInstructionParam(t3, name, <<id>>)

InsertAttributeValue(t, name, value) ==
    LET t1 == IF value \in DOMAIN t.dictToIndex THEN t
              ELSE LET id == Cardinality(DOMAIN t.dictToIndex) IN
                   [t EXCEPT !.dictToIndex = (value :> id) @@ @,
                             !.dictToString = (id :> value) @@ @]
        t2 == EnsureAttribute(t1, name)
        id == t2.dictToIndex[value]
        t3 == IF id \in DOMAIN t2.attributeTable[name].encodedValuesFromIndex THEN t2
              ELSE AppendIndex(t2, name, id)
    IN  updateStreamWithAttributeInstructionParam(t3, name, <<id>>)

RECURSIVE AppendIndices(_, _, _)
AppendIndices(t, name, indices) ==
    IF indices = <<>> THEN t
    ELSE AppendIndices(AppendIndex(t, name, Head(indices)), name, Tail(indices))

InsertAttributeIndices(t, name, indices) ==
    LET t1 == EnsureAttribute(t, name) IN
    IF \E i \in 1..Len(indices) : indices[i] \notin DOMAIN t1.dictToString
    THEN [sym |-> t1, err |-> "UnknownValueId", emit |-> <<>>]
    ELSE updateStreamWithAttributeInstructionParam(
             AppendIndices(t1, name, indices), name, indices)

Finalize(t) == [t EXCEPT !.finalized = TRUE]

(***************************************************************************)
(* core.M3DBSymStreamReader over the records of the stream.  pos is the    *)
(* number of points the series iterator has consumed.                      *)
(***************************************************************************)
NoTable == [version |-> 0]

\* M3DBSymStreamReader.Next with decodeHeader
ReaderNext(s, pos) ==
    IF pos >= Len(s)
    THEN [pos |-> pos, eof |-> TRUE, v |-> 0, seqNum |-> 0,
          instruction |-> NOPInstruction, err |-> "nil"]
    ELSE LET raw == s[pos + 1] IN
         IF raw.instruction >= NOPInstruction
         THEN [pos |-> pos + 1, eof |-> FALSE, v |-> 0, seqNum |-> 0,
               instruction |-> NOPInstruction, err |-> "MalformedRecord"]
         ELSE [pos |-> pos + 1, eof |-> FALSE, v |-> raw.version, seqNum |-> raw.seq,
               instruction |-> raw.instruction, err |-> "nil"]

\* ReadInitInstruction, ReadUpdateInstruction, ReadAttributeInstruction:
\* the cursor (itPos, 0 for none) must be on a record of the wanted kind
ReadInstruction(s, itPos, wanted) ==
    IF itPos = 0 \/ s[itPos].instruction # wanted
    THEN [err |-> "WrongInstruction", raw |-> Record(0, wanted, 0, <<>>, "", 0, <<>>)]
    ELSE [err |-> "nil", raw |-> s[itPos]]

(***************************************************************************)
(* BoostSession.readSymTableStream and findInitInstruction, one step per   *)
(* call of M3DBSymStreamReader.Next.                                       *)
(***************************************************************************)
RdIdle ==
    [pc |-> "idle", version |-> 0, pos |-> 0, itPos |-> 0, eof |-> FALSE,
     restart |-> FALSE, v |-> 0, seqNum |-> 0, prevSeqNum |-> 0,
     instruction |-> InitSymTable, symTable |-> NoTable, err |-> "nil"]

RdReturn(r, table, err) ==
    [r EXCEPT !.pc = "done", !.symTable = table, !.err = err]

\* as RdApply, without the check of the sequence number
RdApply_NoSeqCheck(s, r) ==
    IF r.instruction = EndSymTable
    THEN RdReturn(r, Finalize(r.symTable), "nil")
    ELSE IF r.instruction = UpdateSymTable
    THEN LET p == ReadInstruction(s, r.itPos, UpdateSymTable) IN
         IF p.err # "nil" THEN RdReturn(r, NoTable, p.err)
         ELSE [r EXCEPT !.symTable = UpdateDictionary(r.symTable, p.raw.values).sym]
    ELSE IF r.instruction = AddAttribute
    THEN LET p == ReadInstruction(s, r.itPos, AddAttribute) IN
         IF p.err # "nil" THEN RdReturn(r, NoTable, p.err)
         ELSE [r EXCEPT !.symTable =
                  InsertAttributeIndices(r.symTable, p.raw.name, p.raw.ids).sym]
    ELSE r

\* as RdApply, going on to the next record after an End instead of
\* finalizing the table and returning it
RdApply_PastEnd(s, r) ==
    IF r.seqNum # r.prevSeqNum + 1
    THEN RdReturn(r, NoTable, "InvalidSeq")
    ELSE IF r.instruction = EndSymTable
    THEN r
    ELSE IF r.instruction = UpdateSymTable
    THEN LET p == ReadInstruction(s, r.itPos, UpdateSymTable) IN
         IF p.err # "nil" THEN RdReturn(r, NoTable, p.err)
         ELSE [r EXCEPT !.symTable = UpdateDictionary(r.symTable, p.raw.values).sym]
    ELSE IF r.instruction = AddAttribute
    THEN LET p == ReadInstruction(s, r.itPos, AddAttribute) IN
         IF p.err # "nil" THEN RdReturn(r, NoTable, p.err)
         ELSE [r EXCEPT !.symTable =
                  InsertAttributeIndices(r.symTable, p.raw.name, p.raw.ids).sym]
    ELSE r

\* the rest of one iteration of the loop of readSymTableStream, from the
\* sequence number check on
RdApply(s, r) ==
    IF r.seqNum # r.prevSeqNum + 1
    THEN RdReturn(r, NoTable, "InvalidSeq")
    ELSE IF r.instruction = EndSymTable
    THEN RdReturn(r, Finalize(r.symTable), "nil")
    ELSE IF r.instruction = UpdateSymTable
    THEN LET p == ReadInstruction(s, r.itPos, UpdateSymTable) IN
         IF p.err # "nil" THEN RdReturn(r, NoTable, p.err)
         ELSE [r EXCEPT !.symTable = UpdateDictionary(r.symTable, p.raw.values).sym]
    ELSE IF r.instruction = AddAttribute
    THEN LET p == ReadInstruction(s, r.itPos, AddAttribute) IN
         IF p.err # "nil" THEN RdReturn(r, NoTable, p.err)
         ELSE [r EXCEPT !.symTable =
                  InsertAttributeIndices(r.symTable, p.raw.name, p.raw.ids).sym]
    ELSE r

\* one iteration of the loop of findInitInstruction and, when it breaks,
\* what its caller does with the result
RdFindInitStep(s, r) ==
    LET n == ReaderNext(s, r.pos)
        itPos == IF n.eof \/ n.err # "nil" THEN r.itPos ELSE n.pos
        r1 == [r EXCEPT !.pos = n.pos, !.eof = n.eof, !.itPos = itPos]
    IN  IF n.err # "nil" THEN RdReturn(r1, NoTable, n.err)
        ELSE IF ~(n.instruction = InitSymTable /\ r.version = n.v)
        THEN r1
        ELSE IF n.instruction # InitSymTable THEN RdReturn(r1, NoTable, "NotFound")
        ELSE IF n.seqNum # 1 THEN RdReturn(r1, NoTable, "InvalidInitSeq")
        ELSE IF r.version # n.v THEN RdReturn(r1, NoTable, "NotFound")
        ELSE LET p == ReadInstruction(s, itPos, InitSymTable)
                 fresh == UpdateDictionary(NewSymTable(r.version, FALSE), p.raw.values).sym
                 r2 == [r1 EXCEPT !.seqNum = n.seqNum, !.pc = "loop", !.restart = FALSE]
             IN  IF p.err # "nil" THEN RdReturn(r1, NoTable, p.err)
                 ELSE IF ~r.restart
                 THEN [r2 EXCEPT !.symTable = fresh]
                 \* in the restart branch the fresh table is assigned to a
                 \* variable declared inside the if block: the table of the
                 \* function keeps what was built before
                 ELSE RdApply(s, r2)

\* one iteration of the loop of readSymTableStream
RdLoopStep(s, r) ==
    LET n == ReaderNext(s, r.pos)
        itPos == IF n.eof \/ n.err # "nil" THEN r.itPos ELSE n.pos
        r1 == [r EXCEPT !.pos = n.pos, !.eof = n.eof, !.itPos = itPos,
                        !.prevSeqNum = r.seqNum]
        r2 == [r1 EXCEPT !.v = n.v, !.seqNum = n.seqNum, !.instruction = n.instruction]
    IN  IF n.err # "nil" THEN RdReturn(r1, NoTable, n.err)
        ELSE IF n.instruction = NOPInstruction THEN RdReturn(r2, r.symTable, "nil")
        ELSE IF n.v # r.version THEN [r2 EXCEPT !.pc = "findInit", !.restart = TRUE]
        ELSE RdApply(s, r2)

(***************************************************************************)
(* Spec: one SymTable driven through its public methods, and the replay of *)
(* the records it emitted.                                                 *)
(***************************************************************************)
\* the annotation of a data point: version, length and the indexed header
EncodeAnnotation(version, indexedHeader) ==
    [version |-> version, size |-> Len(indexedHeader), indices |-> indexedHeader]

NoAnnotation == EncodeAnnotation(0, <<>>)

\* no BoostSeriesIterator has been made.  pos is the position of the
\* underlying series iterator in the points, attributeIter.nil stands for
\* the nil tag iterator, NoAnnotation for the nil annotation and NoTable for
\* the nil table; fetched and attributesCalled record that symTableFetchFn
\* and Attributes have been called on this iterator
NoIterator ==
    [pc |-> "none", pos |-> 0, len |-> 0,
     symTable |-> NoTable, annotation |-> NoAnnotation,
     attributeIter |-> [nil |-> TRUE, tags |-> <<>>],
     fetched |-> FALSE, attributesCalled |-> FALSE]

\* no instruction is being encoded or decoded
NoCodec ==
    [pc |-> "none", err |-> "nil", encodedData |-> <<>>,
     x |-> Record(0, NOPInstruction, 0, <<>>, "", 0, <<>>),
     y |-> Record(0, NOPInstruction, 0, <<>>, "", 0, <<>>)]

\* a BoostSession nobody is calling: rwControl is the number of the call that
\* holds the mutex (0: unlocked), cached tells whether symTables holds the
\* table of the series, dispatched the call each data point was written by
NoThreads ==
    [rwControl |-> 0, cached |-> FALSE, dispatched |-> <<>>, threads |-> <<>>]

\* no series family in use
NoFamily ==
    [distributionFactor |-> 1, maxConcurrentWrites |-> 1,
     nextDistributionIndex |-> 0, pendingWrites |-> 0,
     keys |-> <<>>, inFlight |-> 0, started |-> 0, callers |-> <<>>]

WriterIdle ==
    /\ pendingWrites = 0
    /\ tasks = <<>>
    /\ wait = [pc |-> "idle", timeout |-> 0, totalUs |-> 0, err |-> "nil", returned |-> 0]

NoOp ==
    [op |-> "none", err |-> "nil", values |-> <<>>, name |-> "", ids |-> <<>>,
     attributes |-> <<>>, result |-> <<>>]

Init ==
    /\ sym \in {NewSymTable(1, w) : w \in BOOLEAN}
    /\ stream = <<>>
    /\ lastOp = NoOp
    /\ opCount = 0
    /\ calls = {}
    /\ WriterIdle
    /\ rd = RdIdle
    /\ points = <<>>
    /\ family = NoFamily
    /\ otherTable = NoTable
    /\ bsi = NoIterator
    /\ codec = NoCodec
    /\ bs = NoThreads

Called(r, op, values, name, ids) ==
    /\ rd.pc = "idle"
    /\ opCount < MaxOps
    /\ sym' = r.sym
    /\ stream' = stream \o r.emit
    /\ lastOp' = [NoOp EXCEPT !.op = op, !.err = r.err, !.values = values,
                              !.name = name, !.ids = ids]
    /\ opCount' = opCount + 1
    /\ calls' = calls \cup {<<op, r.err>>}
    /\ UNCHANGED <<rd, writerVars, points, family, otherTable, bsi, codec, bs>>

DoUpdateDictionary ==
    \E attributeValues \in ValueLists :
        Called(UpdateDictionary(sym, attributeValues),
               "UpdateDictionary", attributeValues, "", <<>>)

DoInsertAttributeValue ==
    \E name \in Names, value \in Values :
        Called(InsertAttributeValue(sym, name, value),
               "InsertAttributeValue", <<value>>, name, <<>>)

DoInsertAttributeIndices ==
    \E name \in Names, indices \in IdLists :
        Called(InsertAttributeIndices(sym, name, indices),
               "InsertAttributeIndices", <<>>, name, indices)

DoFinalize ==
    /\ rd.pc = "idle"
    /\ sym' = Finalize(sym)
    /\ lastOp' = [NoOp EXCEPT !.op = "Finalize"]
    /\ calls' = calls \cup {<<"Finalize", "nil">>}
    /\ UNCHANGED <<stream, opCount, rd, writerVars, points, family, otherTable, bsi, codec, bs>>

\* a reader replays the records the table has emitted so far
ReplayEmitted ==
    /\ rd.pc = "idle"
    /\ sym.streamWriter
    /\ rd' = [RdIdle EXCEPT !.pc = "findInit", !.version = sym.version]
    /\ UNCHANGED <<tableVars, stream, writerVars, points, family, otherTable, bsi, codec, bs>>

RdFindInit ==
    /\ rd.pc = "findInit"
    /\ rd' = RdFindInitStep(stream, rd)
    /\ UNCHANGED <<tableVars, stream, writerVars, points, family, otherTable, bsi, codec, bs>>

RdLoop ==
    /\ rd.pc = "loop"
    /\ rd' = RdLoopStep(stream, rd)
    /\ UNCHANGED <<tableVars, stream, writerVars, points, family, otherTable, bsi, codec, bs>>

ReplayClose ==
    /\ rd.pc = "done"
    /\ rd' = RdIdle
    /\ UNCHANGED <<tableVars, stream, writerVars, points, family, otherTable, bsi, codec, bs>>

Next ==
    \/ DoUpdateDictionary
    \/ DoInsertAttributeValue
    \/ DoInsertAttributeIndices
    \/ DoFinalize
    \/ ReplayEmitted
    \/ RdFindInit
    \/ RdLoop
    \/ ReplayClose

Spec == Init /\ [][Next]_vars

(***************************************************************************)
(* SpecReplay: readSymTableStream over an arbitrary stream of records.     *)
(***************************************************************************)
RequestedVersion == 1

RecordUniverse ==
    {WriteInitInstruction(1, vs) : vs \in {<<"a">>, <<"a", "b">>, <<"x", "y">>}}
    \cup {Record(1, InitSymTable, 2, <<"a">>, "", 0, <<>>),
          WriteInitInstruction(2, <<"a">>),
          WriteUpdateInstruction(1, 2, <<"b">>),
          WriteUpdateInstruction(1, 3, <<"c">>),
          WriteUpdateInstruction(2, 2, <<"b">>),
          WriteAttributeInstruction(1, 2, "host", DictionaryEncodedValue, <<0>>),
          WriteAttributeInstruction(1, 3, "host", DictionaryEncodedValue, <<1>>),
          WriteEndInstruction(1, 2),
          WriteEndInstruction(1, 3),
          Record(1, NOPInstruction, 1, <<>>, "", 0, <<>>)}

InitReplay ==
    /\ sym = NewSymTable(1, FALSE)
    /\ stream \in SeqsUpTo(RecordUniverse, MaxStreamLen)
    /\ lastOp = NoOp
    /\ opCount = 0
    /\ calls = {}
    /\ WriterIdle
    /\ rd = RdIdle
    /\ points = <<>>
    /\ family = NoFamily
    /\ otherTable = NoTable
    /\ bsi = NoIterator
    /\ codec = NoCodec
    /\ bs = NoThreads
    /\ WriterIdle

ReplayRequested ==
    /\ rd.pc = "idle"
    /\ rd' = [RdIdle EXCEPT !.pc = "findInit", !.version = RequestedVersion]
    /\ UNCHANGED <<tableVars, stream, writerVars, points, family, otherTable, bsi, codec, bs>>

NextReplay ==
    \/ ReplayRequested
    \/ RdFindInit
    \/ RdLoop

SpecReplay == InitReplay /\ [][NextReplay]_vars

(***************************************************************************)
(* Properties of the symbol table and of the stream it emits (Spec).       *)
(***************************************************************************)
\* a step of Spec that is a call of a SymTable modifier
IsCall == opCount' = opCount + 1

Mutators == {"UpdateDictionary", "InsertAttributeValue", "InsertAttributeIndices"}

\* C2: replaying the records emitted by a table on which only
\* UpdateDictionary and InsertAttributeValue were called (here: calls that
\* all returned without error) returns, without error, a table for which
\* IsSame with the original is true.
C2_ReplayEquivalence ==
    (/\ rd.pc = "done"
     /\ calls \subseteq {"UpdateDictionary", "InsertAttributeValue"} \X {"nil"})
        => /\ rd.err = "nil"
           /\ rd.symTable # NoTable
           /\ IsSame(rd.symTable, sym)
           /\ IsSame(sym, rd.symTable)

\* C3: the records emitted by a table with a stream writer carry the
\* sequence numbers 1, 2, 3, ... in emission order; an Init record is the
\* first record and a dictionary record that is not the first is an Update;
\* instructionSeqNum counts the emitted records, grows by one with each
\* emitted record and stays when a call returns an error.
C3_SeqInv ==
    sym.streamWriter =>
        /\ sym.instructionSeqNum = Len(stream)
        /\ \A i \in 1..Len(stream) :
               /\ stream[i].seq = i
               /\ stream[i].version = sym.version
               /\ (stream[i].instruction = InitSymTable) => (i = 1)
               /\ (stream[i].instruction = UpdateSymTable) => (i > 1)

C3_SeqStep ==
    (IsCall /\ sym.streamWriter) =>
        /\ Len(stream') - Len(stream) = sym'.instructionSeqNum - sym.instructionSeqNum
        /\ Len(stream') - Len(stream) \in {0, 1}
        /\ (lastOp'.err # "nil") => (stream' = stream)
        /\ (lastOp'.err = "nil" /\ ~sym.finalized) => (Len(stream') = Len(stream) + 1)
        /\ (lastOp'.op = "UpdateDictionary" /\ lastOp'.err = "nil" /\ ~sym.finalized) =>
               stream'[Len(stream')] =
                   IF sym.instructionSeqNum = 0
                   THEN Record(sym.version, InitSymTable, 1, lastOp'.values, "", 0, <<>>)
                   ELSE Record(sym.version, UpdateSymTable, sym.instructionSeqNum + 1,
                               lastOp'.values, "", 0, <<>>)

C3_SequenceNumbers == []C3_SeqInv /\ [][C3_SeqStep]_vars

C3_Witness ==
    /\ sym.streamWriter /\ ~sym.finalized
    /\ Len(stream) = 2
    /\ stream[1].instruction = InitSymTable
    /\ stream[2].instruction = AddAttribute
    /\ lastOp.err # "nil"

\* C4: the dictionary of a table is a bijection between the ids 0..n-1 and
\* the interned strings, a new value gets the cardinality of the dictionary
\* as its id, and an (id, string) pair, once written, never changes.
DictBijection(t) ==
    LET n == Cardinality(DOMAIN t.dictToString) IN
    /\ Cardinality(DOMAIN t.dictToIndex) = n
    /\ DOMAIN t.dictToString = 0..(n - 1)
    /\ \A s \in DOMAIN t.dictToIndex :
           /\ t.dictToIndex[s] \in DOMAIN t.dictToString
           /\ t.dictToString[t.dictToIndex[s]] = s
    /\ \A id \in DOMAIN t.dictToString :
           /\ t.dictToString[id] \in DOMAIN t.dictToIndex
           /\ t.dictToIndex[t.dictToString[id]] = id

C4_DictStep ==
    /\ \A id \in DOMAIN sym.dictToString :
           /\ id \in DOMAIN sym'.dictToString
           /\ sym'.dictToString[id] = sym.dictToString[id]
    /\ \A s \in DOMAIN sym.dictToIndex :
           /\ s \in DOMAIN sym'.dictToIndex
           /\ sym'.dictToIndex[s] = sym.dictToIndex[s]
    /\ \A id \in DOMAIN sym'.dictToString \ DOMAIN sym.dictToString :
           id >= Cardinality(DOMAIN sym.dictToString)

C4_DictionaryBijection ==
    [](DictBijection(sym) /\ (rd.symTable # NoTable => DictBijection(rd.symTable)))
        /\ [][C4_DictStep]_vars

C4_Witness ==
    /\ Cardinality(DOMAIN sym.dictToString) = 2
    /\ lastOp.op = "UpdateDictionary"
    /\ lastOp.err = "DuplicateValue"
    /\ <<"InsertAttributeValue", "nil">> \in calls

\* C5: for every attribute and every local index k, the reverse mapping of
\* the value-id at k is k, and no value-id occurs twice in encodedValues.
AttributeIndexConsistent(t) ==
    \A a \in DOMAIN t.attributeTable :
        LET ev == t.attributeTable[a].encodedValues
            rev == t.attributeTable[a].encodedValuesFromIndex
        IN  /\ \A k \in 1..Len(ev) : ev[k] \in DOMAIN rev /\ rev[ev[k]] = k - 1
            /\ \A j, k \in 1..Len(ev) : ev[j] = ev[k] => j = k

C5_AttributeIndexInvariant == AttributeIndexConsistent(sym)

\* C6: an UpdateDictionary call whose batch holds a value that is already
\* in the dictionary fails with DuplicateValue and leaves the table, the
\* stream and the sequence number unchanged.
C6_UpdateDictionaryAtomic ==
    [][(/\ IsCall
        /\ lastOp'.op = "UpdateDictionary"
        /\ \E i \in 1..Len(lastOp'.values) : lastOp'.values[i] \in DOMAIN sym.dictToIndex)
           => (/\ lastOp'.err = "DuplicateValue"
               /\ sym' = sym
               /\ stream' = stream)]_vars

\* C7: on a finalized table every UpdateDictionary, InsertAttributeValue and
\* InsertAttributeIndices call fails with Finalized and leaves the
\* dictionary, the attribute tables and the header unchanged.
C7_FinalizedIsImmutable ==
    [][(IsCall /\ sym.finalized /\ lastOp'.op \in Mutators)
           => (/\ lastOp'.err = "Finalized"
               /\ sym'.dictToString = sym.dictToString
               /\ sym'.dictToIndex = sym.dictToIndex
               /\ sym'.attributeTable = sym.attributeTable
               /\ sym'.header = sym.header)]_vars

(***************************************************************************)
(* Properties of the replay (SpecReplay).                                  *)
(***************************************************************************)
HasInitOf(s, version) ==
    \E i \in 1..Len(s) : s[i].instruction = InitSymTable /\ s[i].version = version

\* the dictionary that holds exactly the given values, in order
DictOf(values) == [id \in 0..(Len(values) - 1) |-> values[id + 1]]

\* C9: the replay of a stream that holds no Init record of the requested
\* version has, once the end of the stream was reached, returned with
\* NotFound.
C9_NotFoundAtEndOfStream ==
    (rd.pc # "idle" /\ rd.eof /\ ~HasInitOf(stream, rd.version))
        => (rd.pc = "done" /\ rd.err = "NotFound")

\* C10: for a stream made of an Init of the requested version, a record of
\* another version, a second Init of the requested version with sequence
\* number 1 and an End with sequence number 2, the replay returns the
\* finalized table whose dictionary holds the values of the second Init
\* alone; for <<Init v1 [a], Update v2, Init v1 [x, y], End v1>> that is
\* {0 -> x, 1 -> y}.
C10_RestartOnVersionMismatch ==
    (/\ rd.pc = "done"
     /\ Len(stream) = 4
     /\ stream[1].instruction = InitSymTable /\ stream[1].version = rd.version
     /\ stream[1].seq = 1
     /\ stream[2].version # rd.version /\ stream[2].instruction < NOPInstruction
     /\ stream[3].instruction = InitSymTable /\ stream[3].version = rd.version
     /\ stream[3].seq = 1
     /\ stream[4] = WriteEndInstruction(rd.version, 2))
        => /\ rd.err = "nil"
           /\ rd.symTable # NoTable
           /\ rd.symTable.dictToString = DictOf(stream[3].values)
           /\ rd.symTable.finalized

\* C11: for the stream <<Init v1 seq 1 [a], Update v1 seq 3 [c],
\* Init v1 seq 1 [a, b], End v1 seq 2>> the replay of version 1 returns,
\* without error, the finalized table with the dictionary {0 -> a, 1 -> b}.
C11_TornInitRecovery ==
    (/\ rd.pc = "done"
     /\ rd.version = 1
     /\ stream = << WriteInitInstruction(1, <<"a">>),
                    WriteUpdateInstruction(1, 3, <<"c">>),
                    WriteInitInstruction(1, <<"a", "b">>),
                    WriteEndInstruction(1, 2) >>)
        => /\ rd.err = "nil"
           /\ rd.symTable # NoTable
           /\ rd.symTable.dictToString = DictOf(<<"a", "b">>)
           /\ rd.symTable.finalized

\* the position of the first End record of the stream, Len(s) + 1 for none
FirstEnd(s) ==
    IF \E i \in 1..Len(s) : s[i].instruction = EndSymTable
    THEN CHOOSE i \in 1..Len(s) :
             /\ s[i].instruction = EndSymTable
             /\ \A j \in 1..(i - 1) : s[j].instruction # EndSymTable
    ELSE Len(s) + 1

\* an Init of the version with sequence number 1, followed up to the first
\* End or the end of the stream by Update, AddAttribute and End records of
\* the version with consecutive sequence numbers
WellFormedStream(s, version) ==
    /\ Len(s) >= 1
    /\ s[1].instruction = InitSymTable
    /\ \A i \in 1..Len(s) :
           i <= FirstEnd(s) =>
               /\ s[i].version = version
               /\ s[i].seq = i
               /\ i > 1 => s[i].instruction \in {UpdateSymTable, AddAttribute, EndSymTable}

\* the table of the version after the first n records of a well-formed stream
RECURSIVE EffectOfRecords(_, _, _)
EffectOfRecords(s, version, n) ==
    IF n = 0 THEN NewSymTable(version, FALSE)
    ELSE LET t == EffectOfRecords(s, version, n - 1)
             raw == s[n]
         IN  IF raw.instruction \in {InitSymTable, UpdateSymTable}
             THEN UpdateDictionary(t, raw.values).sym
             ELSE IF raw.instruction = AddAttribute
             THEN InsertAttributeIndices(t, raw.name, raw.ids).sym
             ELSE IF raw.instruction = EndSymTable
             THEN Finalize(t)
             ELSE t

\* C36: the replay of a well-formed stream of the requested version (an Init
\* with sequence number 1 followed by records with consecutive sequence
\* numbers) returns, without error, the table that has the effect of every
\* record up to the first End or the end of the stream; the table is
\* finalized exactly when an End was reached, and no record after the End
\* is applied or read.
C36_ReplayOfWellFormedStream ==
    (rd.pc # "idle" /\ WellFormedStream(stream, rd.version)) =>
        LET last == IF FirstEnd(stream) <= Len(stream)
                    THEN FirstEnd(stream) ELSE Len(stream)
        IN  /\ rd.pos <= last
            /\ (rd.eof \/ rd.pos = FirstEnd(stream)) => rd.pc = "done"
            /\ rd.pc = "done" =>
                   /\ rd.err = "nil"
                   /\ rd.symTable = EffectOfRecords(stream, rd.version, last)
                   /\ rd.symTable.finalized <=> (FirstEnd(stream) <= Len(stream))

\* the replay returned at an End that an Update with the next sequence
\* number follows
C36_Witness ==
    /\ rd.pc = "done"
    /\ WellFormedStream(stream, rd.version)
    /\ Len(stream) = 4
    /\ stream[2].instruction = AddAttribute
    /\ stream[3] = WriteEndInstruction(rd.version, 3)
    /\ stream[4].instruction = UpdateSymTable /\ stream[4].version = rd.version
    /\ rd.symTable.finalized
    /\ DOMAIN rd.symTable.header = {"host"}

\* the positions of the Init records of the version with sequence number 1
ValidInits(s, version) ==
    {i \in 1..Len(s) : /\ s[i].instruction = InitSymTable
                        /\ s[i].version = version
                        /\ s[i].seq = 1}

\* C37: when the stream holds several valid Init records of the requested
\* version and the records from the last of them on are a complete lineage
\* (well-formed and closed by an End), the replay returns, without error,
\* the table built from that last Init and the records that follow it.
C37_LatestInitLineage ==
    (/\ rd.pc = "done"
     /\ Cardinality(ValidInits(stream, rd.version)) >= 2)
        => LET first == CHOOSE i \in ValidInits(stream, rd.version) :
                            \A j \in ValidInits(stream, rd.version) : j <= i
               lineage == SubSeq(stream, first, Len(stream))
           IN  (/\ WellFormedStream(lineage, rd.version)
                /\ FirstEnd(lineage) <= Len(lineage))
                   => /\ rd.err = "nil"
                      /\ rd.symTable =
                             EffectOfRecords(lineage, rd.version, FirstEnd(lineage))

\* C12: when the loop of the replay reads a record of the requested version
\* whose sequence number is not one more than that of the record before it,
\* the call returns an error and no table; when the search for the Init
\* reads an Init of the requested version whose sequence number is not 1,
\* the call returns an error and no table.  A call that returned a table
\* has read records with consecutive sequence numbers starting at 1.
C12_SeqStep ==
    (rd.pos < Len(stream) /\ rd' # rd) =>
        LET raw == stream[rd.pos + 1] IN
        /\ (/\ rd.pc = "loop"
            /\ raw.instruction < NOPInstruction
            /\ raw.version = rd.version
            /\ raw.seq # stream[rd.pos].seq + 1)
               => (rd'.pc = "done" /\ rd'.err = "InvalidSeq" /\ rd'.symTable = NoTable)
        /\ (/\ rd.pc = "findInit"
            /\ raw.instruction = InitSymTable
            /\ raw.version = rd.version
            /\ raw.seq # 1)
               => (rd'.pc = "done" /\ rd'.err = "InvalidInitSeq"
                   /\ rd'.symTable = NoTable)

C12_ReturnedInv ==
    (rd.pc = "done" /\ rd.err = "nil") =>
        \E first \in 1..rd.pos :
            /\ stream[first].instruction = InitSymTable
            /\ stream[first].version = rd.version
            /\ \A i \in first..rd.pos : stream[i].seq = i - first + 1

C12_SequenceChecked == []C12_ReturnedInv /\ [][C12_SeqStep]_vars

\* a replay that returned the sequence number error at an Update that
\* follows the matched Init
C12_Witness ==
    /\ rd.pc = "done"
    /\ rd.err = "InvalidSeq"
    /\ rd.pos = 2
    /\ stream[1].instruction = InitSymTable
    /\ stream[1].version = rd.version
    /\ stream[2].instruction = UpdateSymTable
    /\ stream[2].version = rd.version
    /\ stream[2].seq = 3

(***************************************************************************)
(* SpecWriter: the goroutines of M3DBSymStreamWriter and its Wait.         *)
(***************************************************************************)
Instructions == {InitSymTable, UpdateSymTable, AddAttribute, EndSymTable}
WaitTimeouts == {0, 100}

InitWriter ==
    /\ sym = NewSymTable(1, TRUE)
    /\ stream = <<>>
    /\ lastOp = NoOp
    /\ opCount = 0
    /\ calls = {}
    /\ rd = RdIdle
    /\ points = <<>>
    /\ family = NoFamily
    /\ otherTable = NoTable
    /\ bsi = NoIterator
    /\ codec = NoCodec
    /\ bs = NoThreads
    /\ WriterIdle

\* WriteInitInstruction, WriteUpdateInstruction, WriteAttributeInstruction and
\* WriteEndInstruction: encode, copy, take the timestamp, start the goroutine
\* and return nil
WriteInstruction ==
    /\ Len(tasks) < MaxWrites
    /\ \E instruction \in Instructions :
           tasks' = Append(tasks, [pc |-> "spawned", instruction |-> instruction,
                                   err |-> "nil", completion |-> "none"])
    /\ UNCHANGED <<tableVars, stream, rd, points, pendingWrites, wait, family, otherTable, bsi, codec, bs>>

\* su.pendingWrites.Add(1), the first statement of the goroutine
GoIncrement ==
    \E i \in 1..Len(tasks) :
        /\ tasks[i].pc = "spawned"
        /\ pendingWrites' = pendingWrites + 1
        /\ tasks' = [tasks EXCEPT ![i].pc = "writing"]
        /\ UNCHANGED <<tableVars, stream, rd, points, wait, family, otherTable, bsi, codec, bs>>

\* su.session.Write returns, with or without an error
GoWrite ==
    \E i \in 1..Len(tasks), err \in {"nil", "Underlying"} :
        /\ tasks[i].pc = "writing"
        /\ tasks' = [tasks EXCEPT ![i].pc = "written", ![i].err = err]
        /\ UNCHANGED <<tableVars, stream, rd, points, pendingWrites, wait, family, otherTable, bsi, codec, bs>>

\* su.pendingWrites.Add(-1)
GoDecrement ==
    \E i \in 1..Len(tasks) :
        /\ tasks[i].pc = "written"
        /\ pendingWrites' = pendingWrites - 1
        /\ tasks' = [tasks EXCEPT ![i].pc = "decremented"]
        /\ UNCHANGED <<tableVars, stream, rd, points, wait, family, otherTable, bsi, codec, bs>>

\* completionFn(err) for Init and Update, completionFn(nil) for AddAttribute
\* and End
GoCompletion ==
    \E i \in 1..Len(tasks) :
        /\ tasks[i].pc = "decremented"
        /\ tasks' = [tasks EXCEPT
               ![i].pc = "done",
               ![i].completion =
                   IF tasks[i].instruction \in {InitSymTable, UpdateSymTable}
                   THEN tasks[i].err ELSE "nil"]
        /\ UNCHANGED <<tableVars, stream, rd, points, pendingWrites, wait, family, otherTable, bsi, codec, bs>>

\* M3DBSymStreamWriter.Wait is called
WaitCall ==
    /\ wait.pc = "idle"
    /\ \E timeout \in WaitTimeouts :
           wait' = [pc |-> "polling", timeout |-> timeout, totalUs |-> 0,
                    err |-> "nil", returned |-> Len(tasks)]
    /\ UNCHANGED <<tableVars, stream, rd, points, pendingWrites, tasks, family, otherTable, bsi, codec, bs>>

\* one iteration of the loop of Wait
WaitPoll ==
    /\ wait.pc = "polling"
    /\ wait' =
           IF pendingWrites = 0
           THEN [wait EXCEPT !.pc = "returned"]
           ELSE IF wait.timeout > 0 /\ wait.totalUs + 100 > wait.timeout
           THEN [wait EXCEPT !.pc = "returned", !.err = "Timeout",
                             !.totalUs = @ + 100]
           ELSE [wait EXCEPT !.totalUs = IF wait.timeout > 0 THEN @ + 100 ELSE @]
    /\ UNCHANGED <<tableVars, stream, rd, points, pendingWrites, tasks, family, otherTable, bsi, codec, bs>>

WaitClose ==
    /\ wait.pc = "returned"
    /\ wait' = [pc |-> "idle", timeout |-> 0, totalUs |-> 0, err |-> "nil",
                returned |-> 0]
    /\ UNCHANGED <<tableVars, stream, rd, points, pendingWrites, tasks, family, otherTable, bsi, codec, bs>>

NextWriter ==
    \/ WriteInstruction
    \/ GoIncrement
    \/ GoWrite
    \/ GoDecrement
    \/ GoCompletion
    \/ WaitCall
    \/ WaitPoll
    \/ WaitClose

SpecWriter == InitWriter /\ [][NextWriter]_vars

\* C8: when Wait has returned without a timeout error, the underlying
\* session write of every Write*Instruction call that returned before Wait
\* was called has returned.
C8_WaitCoversReturnedWrites ==
    (wait.pc = "returned" /\ wait.err = "nil")
        => \A i \in 1..wait.returned :
               tasks[i].pc \in {"written", "decremented", "done"}

\* C21: the completion callback of a record is called with the error the
\* underlying session write of that record returned, for Init, Update,
\* AddAttribute and End alike.
C21_CompletionCarriesWriteError ==
    \A i \in 1..Len(tasks) :
        tasks[i].pc = "done" => tasks[i].completion = tasks[i].err

(***************************************************************************)
(* SpecSession: one BoostSession writing data points with attributes to    *)
(* one series, the iterator reading them back with the cached table, and a *)
(* second session rebuilding the table from the symbol-table stream.       *)
(***************************************************************************)
\* the attribute maps a caller passes
AttributeMaps == UNION {[ns -> Values] : ns \in SUBSET Names}

\* the orders in which a range over a Go map with key set S may run
IterationOrders(S) ==
    {o \in [1..Cardinality(S) -> S] : \A i, j \in DOMAIN o : o[i] = o[j] => i = j}

\* the second loop of updateSymbolsAndAttributes
RECURSIVE InsertAttributeValues(_, _, _, _)
InsertAttributeValues(t, attributes, order, emit) ==
    IF order = <<>> THEN [sym |-> t, err |-> "nil", emit |-> emit]
    ELSE LET r == InsertAttributeValue(t, Head(order), attributes[Head(order)]) IN
         IF r.err # "nil" THEN [sym |-> r.sym, err |-> r.err, emit |-> emit \o r.emit]
         ELSE InsertAttributeValues(r.sym, attributes, Tail(order), emit \o r.emit)

\* symbolOrder and attributeOrder are the orders of the two ranges over the map
updateSymbolsAndAttributes(t, attributes, symbolOrder, attributeOrder) ==
    LET values == [i \in DOMAIN symbolOrder |-> attributes[symbolOrder[i]]]
        missing(value) == ~AttributeValueExists(t, value)
        symbols == SelectSeq(values, missing)
        u == UpdateDictionary(t, symbols)
    IN  IF u.err # "nil" THEN u
        ELSE InsertAttributeValues(u.sym, attributes, attributeOrder, u.emit)

\* as WriteValueWithTaggedAttributes, inserting every pair of the map again
\* whether or not the indexed header has a missing slot
WriteValueWithTaggedAttributes_Reinsert(t, attributes, symbolOrder, attributeOrder) ==
    LET u == InsertAttributeValues(t, attributes, attributeOrder, <<>>)
        h2 == GetIndexedHeader(u.sym, attributes)
    IN  IF h2.hasMissing
        THEN [sym |-> u.sym, err |-> "UnresolvedAttribute", emit |-> u.emit,
              annotation |-> NoAnnotation]
        ELSE [sym |-> u.sym, err |-> "nil", emit |-> u.emit,
              annotation |-> EncodeAnnotation(u.sym.version, h2.header)]

\* the part of WriteValueWithTaggedAttributes that runs under the lock
WriteValueWithTaggedAttributes(t, attributes, symbolOrder, attributeOrder) ==
    LET h == GetIndexedHeader(t, attributes) IN
    IF ~h.hasMissing
    THEN [sym |-> t, err |-> "nil", emit |-> <<>>,
          annotation |-> EncodeAnnotation(t.version, h.header)]
    ELSE LET u == updateSymbolsAndAttributes(t, attributes, symbolOrder, attributeOrder)
             h2 == GetIndexedHeader(u.sym, attributes)
         IN  IF h2.hasMissing
             THEN [sym |-> u.sym, err |-> "UnresolvedAttribute", emit |-> u.emit,
                   annotation |-> NoAnnotation]
             ELSE [sym |-> u.sym, err |-> "nil", emit |-> u.emit,
                   annotation |-> EncodeAnnotation(u.sym.version, h2.header)]

\* BoostSeriesIterator.Attributes with the table the fetch function returned
Attributes(table, annotation) ==
    LET indexedHeader == [i \in 1..annotation.size |-> annotation.indices[i]]
    IN  GetAttributesFromIndexedHeader(table, indexedHeader)

InitSession ==
    /\ sym = NewSymTable(1, TRUE)
    /\ stream = <<>>
    /\ lastOp = NoOp
    /\ opCount = 0
    /\ calls = {}
    /\ rd = RdIdle
    /\ points = <<>>
    /\ family = NoFamily
    /\ otherTable = NoTable
    /\ bsi = NoIterator
    /\ codec = NoCodec
    /\ bs = NoThreads
    /\ WriterIdle

\* the go statement of WriteValueWithTaggedAttributes: the data point and
\* the state of its goroutine
NewPoint(attributes, annotation) ==
    [attributes |-> attributes, annotation |-> annotation,
     written |-> FALSE,       \* session.WriteTagged has returned
     result |-> "none",       \* what session.WriteTagged returned
     completions |-> 0,       \* calls of completionFn
     completion |-> "none"]   \* the argument of completionFn

\* as Dispatch, starting the goroutine also when the metadata phase failed
Dispatch_Always(pts, r, attributes) ==
    Append(pts, NewPoint(attributes, r.annotation))

\* the end of WriteValueWithTaggedAttributes: the error return, or the go
\* statement and the nil return
Dispatch(pts, r, attributes) ==
    IF r.err # "nil" THEN pts
    ELSE Append(pts, NewPoint(attributes, r.annotation))

\* a call of WriteValueWithTaggedAttributes up to its return
SessionWrite ==
    /\ rd.pc = "idle"
    /\ opCount < MaxOps
    /\ \E attributes \in AttributeMaps :
       \E symbolOrder, attributeOrder \in IterationOrders(DOMAIN attributes) :
           LET r == WriteValueWithTaggedAttributes(sym, attributes,
                                                   symbolOrder, attributeOrder)
           IN  /\ sym' = r.sym
               /\ stream' = stream \o r.emit
               /\ lastOp' = [NoOp EXCEPT !.op = "WriteValueWithTaggedAttributes",
                                         !.err = r.err,
                                         !.attributes = attributes]
               /\ calls' = calls \cup {<<"WriteValueWithTaggedAttributes", r.err>>}
               /\ points' = Dispatch(points, r, attributes)
    /\ opCount' = opCount + 1
    /\ UNCHANGED <<rd, writerVars, family, otherTable, bsi, codec, bs>>

\* the goroutine of WriteValueWithTaggedAttributes: session.WriteTagged
\* returns, with or without an error
SessionWriteTagged ==
    /\ \E i \in DOMAIN points, ret \in {"nil", "Underlying"} :
           /\ ~points[i].written
           /\ points' = [points EXCEPT ![i].written = TRUE, ![i].result = ret]
    /\ UNCHANGED <<tableVars, stream, rd, writerVars, family, otherTable, bsi, codec, bs>>

\* the goroutine of WriteValueWithTaggedAttributes: completionFn(ret)
SessionCompletion ==
    /\ \E i \in DOMAIN points :
           /\ points[i].written
           /\ points[i].completions = 0
           /\ points' = [points EXCEPT ![i].completions = @ + 1,
                                       ![i].completion = points[i].result]
    /\ UNCHANGED <<tableVars, stream, rd, writerVars, family, otherTable, bsi, codec, bs>>

\* fetchOrCreateSymTable of a session whose cache does not hold the table,
\* called by the iterator with the version of a point's annotation, once
\* the goroutines of all writes have finished
SessionFetchSymTable ==
    /\ rd.pc = "idle"
    /\ \A i \in DOMAIN points : points[i].completions = 1
    /\ \E i \in DOMAIN points :
           /\ points[i].written
           /\ rd' = [RdIdle EXCEPT !.pc = "findInit",
                                   !.version = points[i].annotation.version]
    /\ UNCHANGED <<tableVars, stream, writerVars, points, family, otherTable, bsi, codec, bs>>

NextSession ==
    \/ SessionWrite
    \/ SessionWriteTagged
    \/ SessionCompletion
    \/ SessionFetchSymTable
    \/ RdFindInit
    \/ RdLoop
    \/ ReplayClose

SpecSession == InitSession /\ [][NextSession]_vars

\* the goroutines of the data-point writes are scheduled, and the underlying
\* writes return
SpecSessionFair ==
    /\ SpecSession
    /\ WF_vars(SessionWriteTagged)
    /\ WF_vars(SessionCompletion)

\* C1: every point whose write returned nil with attribute map m and whose
\* write has completed reads back with Attributes() equal to m, with the
\* table of the session cache and with the table a fresh session rebuilds
\* from the symbol-table stream.
C1_AttributesReadBack ==
    \A i \in DOMAIN points :
        (points[i].written /\ points[i].result = "nil") =>
            /\ Attributes(sym, points[i].annotation) = points[i].attributes
            /\ rd.pc = "done" =>
                   /\ rd.err = "nil"
                   /\ rd.symTable # NoTable
                   /\ Attributes(rd.symTable, points[i].annotation)
                          = points[i].attributes


\* C22: a call of WriteValueWithTaggedAttributes that returns nil starts
\* one data-point write and a call that returns an error starts none; the
\* completion callback of a started write is called once, after the write
\* has returned and with what it returned.
C22_DispatchStep ==
    /\ (opCount' = opCount + 1 /\ lastOp'.op = "WriteValueWithTaggedAttributes") =>
           IF lastOp'.err = "nil"
           THEN /\ Len(points') = Len(points) + 1
                /\ SubSeq(points', 1, Len(points)) = points
                /\ ~points'[Len(points')].written
                /\ points'[Len(points')].completions = 0
                /\ points'[Len(points')].attributes = lastOp'.attributes
           ELSE points' = points
    /\ Len(points') # Len(points) =>
           (opCount' = opCount + 1 /\ lastOp'.err = "nil")
    /\ \A i \in DOMAIN points :
           /\ points[i].written =>
                  (points'[i].written /\ points'[i].result = points[i].result)
           /\ points'[i].completions >= points[i].completions

C22_CompletionInv ==
    \A i \in DOMAIN points :
        /\ points[i].completions <= 1
        /\ points[i].completions = 1 =>
               (points[i].written /\ points[i].completion = points[i].result)

C22_EventuallyCompleted ==
    \A i \in 1..MaxOps :
        [](Len(points) >= i => <>(Len(points) >= i /\ points[i].completions = 1))

C22_OneWriteOneCompletion ==
    /\ []C22_CompletionInv
    /\ [][C22_DispatchStep]_vars
    /\ C22_EventuallyCompleted

\* a write that failed in the metadata phase next to one whose callback has
\* been called with the error of the underlying write
C22_Witness ==
    /\ <<"WriteValueWithTaggedAttributes", "UnresolvedAttribute">> \in calls
    /\ \E i \in DOMAIN points :
           points[i].completions = 1 /\ points[i].completion = "Underlying"

\* the values of the dictionary records of a stream, in stream order
RECURSIVE PersistedValues(_)
PersistedValues(s) ==
    IF s = <<>> THEN <<>>
    ELSE (IF Head(s).instruction \in {InitSymTable, UpdateSymTable}
          THEN Head(s).values ELSE <<>>) \o PersistedValues(Tail(s))

\* C28: a call of WriteValueWithTaggedAttributes whose attribute map lacks
\* an attribute of the header returns an error, leaves the symbol table of
\* the series as it was and emits no record.
C28_FailedWriteLeavesTable ==
    [][(/\ opCount' = opCount + 1
        /\ lastOp'.op = "WriteValueWithTaggedAttributes"
        /\ \E name \in DOMAIN sym.header : name \notin DOMAIN lastOp'.attributes)
           => /\ lastOp'.err # "nil"
              /\ sym' = sym
              /\ stream' = stream]_vars

\* C30: the values of the Init record and of the Update records of the
\* stream, in sequence-number order, are the dictionary of the writer's
\* table in value-id order.
C30_DictionaryPersisted ==
    /\ \A i \in 1..Len(stream) : stream[i].seq = i
    /\ LET persisted == PersistedValues(stream) IN
       /\ Len(persisted) = Cardinality(DOMAIN sym.dictToString)
       /\ \A id \in DOMAIN sym.dictToString : persisted[id + 1] = sym.dictToString[id]

\* C35: a write with a map of pairs that are all indexed already and that
\* has every attribute of the header returns nil, leaves the table as it
\* was, emits no record and dispatches a point whose annotation holds the
\* local index of each pair; and after the writes (host=a), (host=b),
\* (host=a) the dictionary has two entries, the ids of host are [0, 1] and
\* the annotations hold the indices 0, 1, 0.
C35_ReuseStep ==
    (/\ opCount' = opCount + 1
     /\ lastOp'.op = "WriteValueWithTaggedAttributes"
     /\ lastOp'.attributes # <<>>
     /\ DOMAIN sym.header \subseteq DOMAIN lastOp'.attributes
     /\ \A name \in DOMAIN lastOp'.attributes :
            FindAttributeIndex(sym, name, lastOp'.attributes[name]) # -1)
        => /\ lastOp'.err = "nil"
           /\ sym' = sym
           /\ stream' = stream
           /\ Len(points') = Len(points) + 1
           /\ LET annotation == points'[Len(points')].annotation IN
              /\ annotation.version = sym.version
              /\ annotation.size = Cardinality(DOMAIN sym.header)
              /\ \A name \in DOMAIN sym.header :
                     annotation.indices[sym.header[name] + 1] =
                         FindAttributeIndex(sym, name, lastOp'.attributes[name])

C35_ThreeWrites ==
    /\ opCount = 3
    /\ Len(points) = 3
    /\ points[1].attributes = [host |-> "a"]
    /\ points[2].attributes = [host |-> "b"]
    /\ points[3].attributes = [host |-> "a"]

C35_ThreeWritesInv ==
    C35_ThreeWrites =>
        /\ Cardinality(DOMAIN sym.dictToString) = 2
        /\ sym.attributeTable["host"].encodedValues = <<0, 1>>
        /\ points[1].annotation.indices = <<0>>
        /\ points[2].annotation.indices = <<1>>
        /\ points[3].annotation.indices = <<0>>

C38_DenseInv ==
    \A name \in DOMAIN sym.attributeTable :
        LET n == Len(sym.attributeTable[name].encodedValues) IN
        /\ {FindAttributeIndex(sym, name, v) : v \in DOMAIN sym.dictToIndex} \ {-1}
               = 0..(n - 1)
        /\ \A k \in 0..(n - 1) :
               FindAttributeIndex(sym, name, FindAttributeValue(sym, name, k)) = k
        /\ FindAttributeValue(sym, name, n) = ""

C38_StableStep ==
    \A name \in Names, value \in Values :
        LET k == FindAttributeIndex(sym, name, value) IN
        k >= 0 => /\ FindAttributeIndex(sym', name, value) = k
                  /\ FindAttributeValue(sym', name, k) = value

C38_LocalIndicesStable == []C38_DenseInv /\ [][C38_StableStep]_vars

\* C39: two sessions that start empty and execute the same sequence of
\* WriteValueWithTaggedAttributes calls end with equal dictionaries, header
\* orderings and encodedValues and with identical instruction streams, also
\* when one write introduces two or more new attributes or values.  Stated
\* on one write: a second session that holds the same table and stream and
\* executes the same write, iterating over its own copy of the attribute
\* map, reaches the same table, emits the same records and returns the same
\* result.
C39_DeterministicStep ==
    (/\ opCount' = opCount + 1
     /\ lastOp'.op = "WriteValueWithTaggedAttributes")
        => \A symbolOrder, attributeOrder \in IterationOrders(DOMAIN lastOp'.attributes) :
               LET other == WriteValueWithTaggedAttributes(sym, lastOp'.attributes,
                                                           symbolOrder, attributeOrder)
               IN  /\ other.sym = sym'
                   /\ stream \o other.emit = stream'
                   /\ other.err = lastOp'.err

C39_SessionsDeterministic == [][C39_DeterministicStep]_vars

\* C40: a write with an empty attribute map on a series whose header is
\* empty succeeds: it dispatches one data point whose annotation has the
\* version of the table and a header of length 0, and it changes neither the
\* table nor the stream.
C40_EmptyWriteStep ==
    (/\ opCount' = opCount + 1
     /\ lastOp'.op = "WriteValueWithTaggedAttributes"
     /\ lastOp'.attributes = <<>>
     /\ DOMAIN sym.header = {})
        => /\ lastOp'.err = "nil"
           /\ sym' = sym
           /\ stream' = stream
           /\ Len(points') = Len(points) + 1
           /\ points'[Len(points')].annotation.version = sym.version
           /\ points'[Len(points')].annotation.size = 0

C40_EmptyWriteSucceeds == [][C40_EmptyWriteStep]_vars

\* C15: a write whose map covers every attribute of a non-empty header and
\* holds only values that are already in the dictionary, and for which
\* GetIndexedHeader reports missing, returns nil and leaves every pair of
\* the map indexed.
C15_InsertsWithoutNewValues ==
    [][(opCount' = opCount + 1 /\ lastOp'.op = "WriteValueWithTaggedAttributes") =>
          LET attributes == lastOp'.attributes IN
          (/\ DOMAIN sym.header # {}
           /\ DOMAIN sym.header \subseteq DOMAIN attributes
           /\ \A name \in DOMAIN attributes :
                  AttributeValueExists(sym, attributes[name])
           /\ GetIndexedHeader(sym, attributes).hasMissing)
              => /\ lastOp'.err = "nil"
                 /\ \A name \in DOMAIN attributes :
                        FindAttributeIndex(sym', name, attributes[name]) # -1]_vars

(***************************************************************************)
(* SpecAccessors: one SymTable driven through its modifiers, with calls of *)
(* GetIndexedHeader and GetAttributesFromIndexedHeader in between.         *)
(***************************************************************************)
\* a call of GetIndexedHeader with an attribute map
DoGetIndexedHeader ==
    /\ \E attributes \in AttributeMaps :
           lastOp' = [NoOp EXCEPT !.op = "GetIndexedHeader",
                                  !.attributes = attributes,
                                  !.result = GetIndexedHeader(sym, attributes)]
    /\ UNCHANGED <<sym, stream, opCount, calls, rd, writerVars, points, family, otherTable, bsi, codec, bs>>

\* a call of GetAttributesFromIndexedHeader with the header the preceding
\* call of GetIndexedHeader returned
DoGetAttributesFromIndexedHeader ==
    /\ lastOp.op = "GetIndexedHeader"
    /\ lastOp' = [lastOp EXCEPT
                     !.op = "GetAttributesFromIndexedHeader",
                     !.ids = lastOp.result.header,
                     !.result = GetAttributesFromIndexedHeader(sym, lastOp.result.header)]
    /\ UNCHANGED <<sym, stream, opCount, calls, rd, writerVars, points, family, otherTable, bsi, codec, bs>>

\* the table has no stream writer: the accessors read neither the stream
\* nor the sequence number
InitAccessors ==
    /\ Init
    /\ ~sym.streamWriter

NextAccessors ==
    \/ DoUpdateDictionary
    \/ DoInsertAttributeValue
    \/ DoInsertAttributeIndices
    \/ DoGetIndexedHeader
    \/ DoGetAttributesFromIndexedHeader

SpecAccessors == InitAccessors /\ [][NextAccessors]_vars

\* C16: GetIndexedHeader returns hasMissing = TRUE exactly when a slot of
\* the returned vector is -1; on a table with an empty header it returns the
\* empty vector and hasMissing = FALSE.
C16_HasMissingIffSlotMissing ==
    lastOp.op = "GetIndexedHeader" =>
        /\ lastOp.result.hasMissing
               <=> (\E i \in DOMAIN lastOp.result.header : lastOp.result.header[i] = -1)
        /\ DOMAIN sym.header = {}
               => (lastOp.result.header = <<>> /\ ~lastOp.result.hasMissing)

\* the ids of an attribute's encodedValues are pairwise distinct
NoRepeatedIds(t, name) ==
    \A i, j \in DOMAIN t.attributeTable[name].encodedValues :
        t.attributeTable[name].encodedValues[i] = t.attributeTable[name].encodedValues[j]
            => i = j

C18_HeaderRoundTrip ==
    (/\ lastOp.op = "GetAttributesFromIndexedHeader"
     /\ DOMAIN lastOp.attributes \subseteq DOMAIN sym.header
     /\ \A nm \in DOMAIN lastOp.attributes :
            FindAttributeIndex(sym, nm, lastOp.attributes[nm]) # -1)
        => lastOp.result = lastOp.attributes

\* C19 (Spec): a call of InsertAttributeValue leaves its pair indexed, and
\* a call with a pair that is already indexed leaves the dictionary, the
\* header and every attribute's encodedValues as they were; on a table that
\* was modified by UpdateDictionary, InsertAttributeValue and Finalize only,
\* no attribute's encodedValues holds a value-id twice.
C19_InsertStep ==
    (IsCall /\ lastOp'.op = "InsertAttributeValue") =>
        LET name == lastOp'.name
            value == lastOp'.values[1]
        IN  /\ FindAttributeIndex(sym', name, value) # -1
            /\ FindAttributeIndex(sym, name, value) # -1 =>
                   /\ sym'.dictToString = sym.dictToString
                   /\ sym'.dictToIndex = sym.dictToIndex
                   /\ sym'.header = sym.header
                   /\ sym'.attributeTable = sym.attributeTable

C19_NoRepeatInv ==
    (\A c \in calls : c[1] # "InsertAttributeIndices") =>
        \A a \in DOMAIN sym.attributeTable : NoRepeatedIds(sym, a)

C19_InsertAttributeValueIdempotent == []C19_NoRepeatInv /\ [][C19_InsertStep]_vars

\* the same pair was inserted twice: two AddAttribute records, one entry
C19_Witness ==
    /\ lastOp.op = "InsertAttributeValue"
    /\ Len(stream) >= 2
    /\ stream[Len(stream)].instruction = AddAttribute
    /\ stream[Len(stream) - 1].instruction = AddAttribute
    /\ stream[Len(stream)].name = stream[Len(stream) - 1].name
    /\ stream[Len(stream)].ids = stream[Len(stream) - 1].ids
    /\ Len(sym.attributeTable[lastOp.name].encodedValues) = 1

\* C27: an InsertAttributeIndices call that is given an id the dictionary
\* does not hold fails with the unknown-id error and leaves the table as it
\* was: no id appended, no attribute entry and no header slot created, and
\* no record emitted.
C27_UnknownIdLeavesTable ==
    [][(/\ opCount' = opCount + 1
        /\ lastOp'.op = "InsertAttributeIndices"
        /\ \E i \in 1..Len(lastOp'.ids) : lastOp'.ids[i] \notin DOMAIN sym.dictToString)
           => /\ lastOp'.err = "UnknownValueId"
              /\ sym' = sym
              /\ stream' = stream]_vars

(***************************************************************************)
(* SpecSame: two SymTables without stream writer, each built by calls of   *)
(* UpdateDictionary and InsertAttributeValue, and IsSame between them.     *)
(***************************************************************************)
TableVersions == {1, 2}

\* the calls made on a table; "none" leaves it alone
TableCalls ==
    {[op |-> "none", values |-> <<>>, name |-> ""]}
    \cup {[op |-> "UpdateDictionary", values |-> vs, name |-> ""] : vs \in ValueLists}
    \cup {[op |-> "InsertAttributeValue", values |-> <<v>>, name |-> nm] :
             v \in Values, nm \in Names}

ApplyCall(t, call) ==
    IF call.op = "UpdateDictionary" THEN UpdateDictionary(t, call.values).sym
    ELSE IF call.op = "InsertAttributeValue"
    THEN InsertAttributeValue(t, call.name, call.values[1]).sym
    ELSE t

InitSame ==
    /\ sym = NewSymTable(1, FALSE)
    /\ otherTable \in {NewSymTable(v, FALSE) : v \in TableVersions}
    /\ bsi = NoIterator
    /\ codec = NoCodec
    /\ bs = NoThreads
    /\ stream = <<>>
    /\ lastOp = NoOp
    /\ opCount = 0
    /\ calls = {}
    /\ rd = RdIdle
    /\ points = <<>>
    /\ family = NoFamily
    /\ WriterIdle

\* one call on each of the two tables
SameBuild ==
    /\ opCount < MaxOps
    /\ \E call, otherCall \in TableCalls :
           /\ sym' = ApplyCall(sym, call)
           /\ otherTable' = ApplyCall(otherTable, otherCall)
    /\ opCount' = opCount + 1
    /\ lastOp' = [NoOp EXCEPT !.op = "build"]
    /\ UNCHANGED <<stream, calls, rd, writerVars, points, family, bsi, codec, bs>>

DoIsSame ==
    /\ lastOp' = [NoOp EXCEPT !.op = "IsSame", !.result = IsSame(sym, otherTable)]
    /\ UNCHANGED <<sym, otherTable, stream, opCount, calls, rd, writerVars, points, family, bsi, codec, bs>>

NextSame ==
    \/ SameBuild
    \/ DoIsSame

SpecSame == InitSame /\ [][NextSame]_vars

\* C20: IsSame returns true exactly when the two tables have equal
\* dictionaries, the same attribute names with the same encoding types, the
\* same header ordering and, for every attribute, the same encodedValues
\* sequence.
C20_IsSameStructural ==
    lastOp.op = "IsSame" =>
        (lastOp.result <=>
            /\ sym.dictToString = otherTable.dictToString
            /\ DOMAIN sym.attributeTable = DOMAIN otherTable.attributeTable
            /\ \A a \in DOMAIN sym.attributeTable :
                   /\ sym.attributeTable[a].encodingType
                          = otherTable.attributeTable[a].encodingType
                   /\ sym.attributeTable[a].encodedValues
                          = otherTable.attributeTable[a].encodedValues
            /\ sym.header = otherTable.header)

(***************************************************************************)
(* SpecFamily: one M3DBSeriesFamily and concurrent callers of WriteTagged. *)
(***************************************************************************)
Callers == {"w1", "w2", "w3"}
DistributionFactors == {1, 2, 4}
ConcurrentWriteLimits == {1, 2}

NewM3DBSeriesFamily(distributionFactor, maxConcurrentWrites) ==
    [distributionFactor |-> distributionFactor,
     maxConcurrentWrites |-> maxConcurrentWrites,
     nextDistributionIndex |-> 0,
     pendingWrites |-> 0,
     keys |-> <<>>,       \* the shard indices of the prefixes used, in order
     inFlight |-> 0,      \* goroutines of accepted writes not yet completed
     started |-> 0,       \* calls of WriteTagged made so far
     callers |-> [c \in Callers |-> [pc |-> "idle", oldVal |-> 0]]]

InitFamily ==
    /\ sym = NewSymTable(1, TRUE)
    /\ stream = <<>>
    /\ lastOp = NoOp
    /\ opCount = 0
    /\ calls = {}
    /\ rd = RdIdle
    /\ points = <<>>
    /\ WriterIdle
    /\ otherTable = NoTable
    /\ bsi = NoIterator
    /\ codec = NoCodec
    /\ bs = NoThreads
    /\ family \in {NewM3DBSeriesFamily(n, m) :
                       n \in DistributionFactors, m \in ConcurrentWriteLimits}

FamilyUnchanged == UNCHANGED <<tableVars, stream, rd, writerVars, points, otherTable, bsi, codec, bs>>

\* a caller enters WriteTagged
FamilyWriteTagged(c) ==
    /\ family.callers[c].pc = "idle"
    /\ family.started < MaxFamilyWrites
    /\ family' = [family EXCEPT !.callers[c].pc = "load", !.started = @ + 1]
    /\ FamilyUnchanged

\* waitIfTooManyPendingWrites: the Load and the comparison with the limit
FamilyLoad(c) ==
    /\ family.callers[c].pc = "load"
    /\ family' = IF family.pendingWrites < family.maxConcurrentWrites
                 THEN [family EXCEPT !.callers[c] =
                          [pc |-> "cas", oldVal |-> family.pendingWrites]]
                 ELSE family
    /\ FamilyUnchanged

\* as CompareAndSwap, storing oldVal + 1 whatever the counter holds
CompareAndSwap_Store(f, c) ==
    [f EXCEPT !.pendingWrites = f.callers[c].oldVal + 1,
              !.callers[c].pc = "add"]

\* waitIfTooManyPendingWrites: the CompareAndSwap and the break
CompareAndSwap(f, c) ==
    IF f.pendingWrites = f.callers[c].oldVal
    THEN [f EXCEPT !.pendingWrites = f.callers[c].oldVal + 1,
                   !.callers[c].pc = "add"]
    ELSE [f EXCEPT !.callers[c].pc = "load"]

FamilyCompareAndSwap(c) ==
    /\ family.callers[c].pc = "cas"
    /\ family' = CompareAndSwap(family, c)
    /\ FamilyUnchanged

\* the shard index WriteTagged derives from the value Add(1) returned
ShardIndex(added, distributionFactor) == added % distributionFactor

\* WriteTagged: nextDistributionIndex.Add(1) and the prefix of the series
FamilyNextIndex(c) ==
    /\ family.callers[c].pc = "add"
    /\ LET added == family.nextDistributionIndex + 1 IN
       family' = [family EXCEPT
                     !.nextDistributionIndex = added,
                     !.keys = Append(@, ShardIndex(added, family.distributionFactor)),
                     !.callers[c].pc = "write"]
    /\ FamilyUnchanged

\* WriteTagged: the call of WriteValueWithTaggedAttributes, which either
\* returns an error or starts the goroutine that calls the completion
FamilySessionWrite(c) ==
    /\ family.callers[c].pc = "write"
    /\ \E accepted \in BOOLEAN :
           family' = [family EXCEPT
                         !.inFlight = IF accepted THEN @ + 1 ELSE @,
                         !.callers[c].pc = "idle"]
    /\ FamilyUnchanged

\* the completion callback of an accepted write: writeCompletionFn
FamilyWriteCompletion ==
    /\ family.inFlight > 0
    /\ family' = [family EXCEPT !.inFlight = @ - 1, !.pendingWrites = @ - 1]
    /\ FamilyUnchanged

NextFamily ==
    \/ \E c \in Callers : FamilyWriteTagged(c)
    \/ \E c \in Callers : FamilyLoad(c)
    \/ \E c \in Callers : FamilyCompareAndSwap(c)
    \/ \E c \in Callers : FamilyNextIndex(c)
    \/ \E c \in Callers : FamilySessionWrite(c)
    \/ FamilyWriteCompletion

SpecFamily == InitFamily /\ [][NextFamily]_vars

\* C13: the k-th WriteTagged of a family (k = 0, 1, 2, ...) uses the prefix
\* with shard index k mod distributionFactor, and every shard index is less
\* than distributionFactor.
C13_RoundRobinFromZero ==
    \A k \in 1..Len(family.keys) :
        /\ family.keys[k] = (k - 1) % family.distributionFactor
        /\ family.keys[k] < family.distributionFactor

\* C14: the pending counter of a family stays between 0 and
\* maxConcurrentWrites, and a caller leaves waitIfTooManyPendingWrites only
\* in a step that takes the counter from a value below the limit, which is
\* the value the caller loaded, to that value plus one.
C14_PendingInv ==
    /\ family.pendingWrites >= 0
    /\ family.pendingWrites <= family.maxConcurrentWrites

C14_AdmitStep ==
    \A c \in DOMAIN family.callers :
        (family.callers[c].pc = "cas" /\ family'.callers[c].pc = "add") =>
            /\ family.pendingWrites < family.maxConcurrentWrites
            /\ family.pendingWrites = family.callers[c].oldVal
            /\ family'.pendingWrites = family.pendingWrites + 1

C14_AdmissionControl == []C14_PendingInv /\ [][C14_AdmitStep]_vars

\* the counter is at a limit of two, with one caller waiting and one
\* completion due
C14_Witness ==
    /\ family.maxConcurrentWrites = 2
    /\ family.pendingWrites = 2
    /\ family.inFlight > 0
    /\ \E c \in DOMAIN family.callers : family.callers[c].pc = "load"

\* C31: every admitted write of a family takes its increment of the pending
\* counter back, also when WriteValueWithTaggedAttributes returns an error:
\* when no caller is inside WriteTagged and every dispatched write has
\* completed, the pending counter is 0, so that Wait returns at once.
C31_PendingDrains ==
    (/\ \A c \in DOMAIN family.callers : family.callers[c].pc = "idle"
     /\ family.inFlight = 0)
        => family.pendingWrites = 0

(***************************************************************************)
(* SpecIterator: the series is written through one BoostSession (table     *)
(* sym), then fetched through a second BoostSession.  otherTable is the    *)
(* table in the cache of the second session (NoTable: nothing cached), bsi *)
(* the BoostSeriesIterator it returned, rd its readSymTableStream call.    *)
(* The second session writes to the series after it has fetched it.        *)
(***************************************************************************)
\* the annotations a caller hands to BoostSession.WriteTagged
CallerAnnotations == {EncodeAnnotation(v, <<>>) : v \in TableVersions}

\* the points the database holds, in the order of the series iterator
StoredPoints(pts) ==
    LET stored(p) == p.written /\ p.result = "nil" IN SelectSeq(pts, stored)

NewBoostSeriesIterator(len) == [NoIterator EXCEPT !.pc = "open", !.len = len]

\* BoostSeriesIterator.Next: pos is len + 1 once the series is exhausted
BsiNext(b) ==
    [b EXCEPT !.attributeIter = NoIterator.attributeIter,
              !.annotation = NoAnnotation,
              !.pos = IF b.pos < b.len THEN b.pos + 1 ELSE b.len + 1]

\* as BsiCurrent, fetching the symbol table of the point at once
BsiCurrent_Eager(b, annotation) ==
    [b EXCEPT !.annotation = annotation, !.fetched = TRUE]

\* BoostSeriesIterator.Current
BsiCurrent(b, annotation) == [b EXCEPT !.annotation = annotation]

\* the end of BoostSeriesIterator.Attributes: the tags decoded with the
\* table of the iterator
BsiDecode(b) ==
    [b EXCEPT !.attributeIter =
                  [nil |-> FALSE, tags |-> Attributes(b.symTable, b.annotation)]]

\* BoostSession.WriteTagged: the annotation of the caller goes to the
\* database as it is; the call is synchronous and has no completion function
SessionPassThroughWriteTagged ==
    /\ bsi.pc = "none"
    /\ rd.pc = "idle"
    /\ opCount < MaxOps
    /\ \E annotation \in CallerAnnotations :
           points' = Append(points,
                            [NewPoint(<<>>, annotation) EXCEPT
                                 !.written = TRUE, !.result = "nil",
                                 !.completions = 1, !.completion = "nil"])
    /\ lastOp' = [NoOp EXCEPT !.op = "WriteTagged"]
    /\ opCount' = opCount + 1
    /\ UNCHANGED <<sym, stream, calls, rd, writerVars, family, otherTable, bsi, codec, bs>>

\* the writes of the first session come before the fetch of the second
WriterSessionWrite == bsi.pc = "none" /\ SessionWrite

\* FetchValueWithTaggedAttribute of the second session, once the goroutines
\* of all writes have finished
IterFetch ==
    /\ bsi.pc = "none"
    /\ rd.pc = "idle"
    /\ \A i \in DOMAIN points : points[i].completions = 1
    /\ bsi' = NewBoostSeriesIterator(Len(StoredPoints(points)))
    /\ lastOp' = [NoOp EXCEPT !.op = "FetchValueWithTaggedAttribute"]
    /\ UNCHANGED <<sym, stream, opCount, calls, rd, writerVars, points, family, otherTable, codec, bs>>

\* the calls of Next up to the first that returns false
IterNext ==
    /\ bsi.pc = "open"
    /\ bsi.pos <= bsi.len
    /\ bsi' = BsiNext(bsi)
    /\ lastOp' = [NoOp EXCEPT !.op = "Next"]
    /\ UNCHANGED <<sym, stream, opCount, calls, rd, writerVars, points, family, otherTable, codec, bs>>

IterCurrent ==
    /\ bsi.pc = "open"
    /\ bsi.pos \in 1..bsi.len
    /\ bsi' = BsiCurrent(bsi, StoredPoints(points)[bsi.pos].annotation)
    /\ lastOp' = [NoOp EXCEPT !.op = "Current"]
    /\ UNCHANGED <<sym, stream, opCount, calls, rd, writerVars, points, family, otherTable, codec, bs>>

\* BoostSeriesIterator.Attributes up to its return or, when the cache of the
\* session does not hold the table, up to the call of readSymTableStream in
\* fetchOrCreateSymTable.  Reading the version of a nil annotation panics:
\* the call is made after Current.
IterAttributes ==
    /\ bsi.pc = "open"
    /\ bsi.annotation # NoAnnotation
    /\ rd.pc = "idle"
    /\ lastOp' = [NoOp EXCEPT !.op = "Attributes"]
    /\ LET called == [bsi EXCEPT !.attributesCalled = TRUE] IN
       IF ~bsi.attributeIter.nil
       THEN /\ bsi' = called
            /\ UNCHANGED <<rd, otherTable, codec, bs>>
       ELSE IF bsi.symTable # NoTable /\ bsi.symTable.version = bsi.annotation.version
       THEN /\ bsi' = BsiDecode(called)
            /\ UNCHANGED <<rd, otherTable, codec, bs>>
       ELSE IF otherTable # NoTable
       \* fetchOrCreateSymTable finds a table in the cache
       THEN /\ bsi' = BsiDecode([called EXCEPT !.fetched = TRUE,
                                               !.symTable = otherTable])
            /\ UNCHANGED <<rd, otherTable, codec, bs>>
       ELSE /\ bsi' = [called EXCEPT !.fetched = TRUE, !.pc = "fetching"]
            /\ rd' = [RdIdle EXCEPT !.pc = "findInit",
                                    !.version = bsi.annotation.version]
            /\ UNCHANGED otherTable
    /\ UNCHANGED <<sym, stream, opCount, calls, writerVars, points, family, codec, bs>>

\* readSymTableStream has returned: the rest of fetchOrCreateSymTable and
\* of Attributes
IterAttributesReturn ==
    /\ bsi.pc = "fetching"
    /\ rd.pc = "done"
    /\ rd' = RdIdle
    /\ IF rd.err # "nil"
       THEN /\ bsi' = [bsi EXCEPT !.pc = "open"]
            /\ UNCHANGED otherTable
       ELSE /\ otherTable' = rd.symTable
            /\ bsi' = BsiDecode([bsi EXCEPT !.pc = "open", !.symTable = rd.symTable])
    /\ UNCHANGED <<sym, stream, lastOp, opCount, calls, writerVars, points, family, codec, bs>>

\* a call of WriteValueWithTaggedAttributes of the second session up to its
\* return.  The iterator holds a pointer to the table of the cache, so it
\* sees what the write does to the table.  The session writes once it has
\* read the series to its end.
ReaderSessionWrite ==
    /\ bsi.pc = "open"
    /\ bsi.pos = bsi.len + 1
    /\ rd.pc = "idle"
    /\ opCount < MaxOps
    /\ \E attributes \in AttributeMaps :
       \E symbolOrder, attributeOrder \in IterationOrders(DOMAIN attributes) :
           LET symTable == IF otherTable = NoTable THEN NewSymTable(1, TRUE)
                           ELSE otherTable
               r == WriteValueWithTaggedAttributes(symTable, attributes,
                                                   symbolOrder, attributeOrder)
           IN  /\ otherTable' = r.sym
               /\ stream' = stream \o r.emit
               /\ lastOp' = [NoOp EXCEPT !.op = "WriteValueWithTaggedAttributes",
                                         !.err = r.err,
                                         !.attributes = attributes]
               /\ calls' = calls \cup {<<"WriteValueWithTaggedAttributes", r.err>>}
               /\ points' = Dispatch(points, r, attributes)
               /\ bsi' = IF bsi.symTable = NoTable THEN bsi
                         ELSE [bsi EXCEPT !.symTable = r.sym]
    /\ opCount' = opCount + 1
    /\ UNCHANGED <<sym, rd, writerVars, family, codec, bs>>

NextIterator ==
    \/ WriterSessionWrite
    \/ SessionPassThroughWriteTagged
    \/ SessionWriteTagged
    \/ SessionCompletion
    \/ IterFetch
    \/ IterNext
    \/ IterCurrent
    \/ IterAttributes
    \/ IterAttributesReturn
    \/ RdFindInit
    \/ RdLoop
    \/ ReaderSessionWrite

SpecIterator == InitSession /\ [][NextIterator]_vars

\* C23: the tags Attributes() has decoded for a point were decoded with a
\* table whose version is the version in the annotation of the point, and
\* the table the iterator holds after a fetch has the requested version.
C23_TableOfAnnotatedVersion ==
    (bsi.pc = "open" /\ ~bsi.attributeIter.nil) =>
        bsi.symTable.version = bsi.annotation.version

\* C24: symTableFetchFn is called and the symbol-table stream is read only
\* by Attributes(): an iterator on which Attributes() was never called has
\* fetched nothing, however many Next() and Current() calls were made, and
\* a step that calls the fetch function or starts a read of the stream is a
\* step of Attributes().
C24_NoFetchInv ==
    /\ bsi.fetched => bsi.attributesCalled
    /\ rd.pc # "idle" => bsi.attributesCalled

C24_FetchStep ==
    (\/ bsi'.fetched /\ ~bsi.fetched
     \/ rd.pc = "idle" /\ rd'.pc # "idle") => lastOp'.op = "Attributes"

C24_LazyDecode == []C24_NoFetchInv /\ [][C24_FetchStep]_vars

\* the whole series was iterated with Next() and Current() and nothing was
\* fetched
C24_Witness ==
    /\ bsi.pc = "open"
    /\ bsi.len >= 2
    /\ bsi.pos = bsi.len
    /\ bsi.annotation # NoAnnotation
    /\ lastOp.op = "Current"
    /\ ~bsi.attributesCalled
    /\ ~bsi.fetched
    /\ rd.pc = "idle"
    /\ otherTable = NoTable

\* C29: a write of the second session that adds a dictionary value or an
\* attribute to the table of its cache puts a record with that value or that
\* attribute on the symbol-table stream, also when the read path has put the
\* table into the cache.
C29_MutationsEmitRecords ==
    [][(/\ opCount' = opCount + 1
        /\ lastOp'.op = "WriteValueWithTaggedAttributes"
        /\ lastOp'.err = "nil"
        /\ otherTable # NoTable
        /\ otherTable' # otherTable)
           => LET emitted == SubSeq(stream', Len(stream) + 1, Len(stream')) IN
              /\ \A id \in DOMAIN otherTable'.dictToString \ DOMAIN otherTable.dictToString :
                     \E i \in DOMAIN emitted :
                         /\ emitted[i].instruction \in {InitSymTable, UpdateSymTable}
                         /\ \E j \in DOMAIN emitted[i].values :
                                emitted[i].values[j] = otherTable'.dictToString[id]
              /\ \A name \in DOMAIN otherTable'.attributeTable :
                     (\/ name \notin DOMAIN otherTable.attributeTable
                      \/ otherTable'.attributeTable[name] # otherTable.attributeTable[name])
                         => \E i \in DOMAIN emitted :
                                /\ emitted[i].instruction = AddAttribute
                                /\ emitted[i].name = name]_vars

(***************************************************************************)
(* SpecCodec: one instruction is encoded by the M3DBSymStreamWriter and    *)
(* the bytes are decoded by the M3DBSymStreamReader.  Bytes are numbers in *)
(* 0..255.  Versions stay below 2^15 and sequence numbers below 2^31, so   *)
(* that the 32-bit words of the header stay within the integers of TLC.    *)
(***************************************************************************)
CodecStrings == {"", "a", "b", "ab", "host", "dc"}

\* []byte(s)
Bytes(s) ==
    CASE s = "" -> <<>>
      [] s = "a" -> <<97>>
      [] s = "b" -> <<98>>
      [] s = "ab" -> <<97, 98>>
      [] s = "host" -> <<104, 111, 115, 116>>
      [] s = "dc" -> <<100, 99>>

\* string(bytes); "?" stands for every string outside CodecStrings
String(bytes) ==
    IF \E s \in CodecStrings : Bytes(s) = bytes
    THEN CHOOSE s \in CodecStrings : Bytes(s) = bytes
    ELSE "?"

\* binary.LittleEndian.PutUint16, PutUint32, PutUint64: the n low bytes of x
RECURSIVE PutUint(_, _)
PutUint(x, n) ==
    IF n = 0 THEN <<>> ELSE <<x % 256>> \o PutUint(x \div 256, n - 1)

\* binary.LittleEndian.Uint16, Uint32, Uint64
RECURSIVE Uint(_)
Uint(bytes) ==
    IF bytes = <<>> THEN 0 ELSE Head(bytes) + 256 * Uint(Tail(bytes))

\* raw[n:]
Drop(raw, n) == SubSeq(raw, n + 1, Len(raw))

\* the loop of encodeAttributeValues
RECURSIVE encodeValues(_)
encodeValues(attributeValues) ==
    IF attributeValues = <<>> THEN <<>>
    ELSE PutUint(Len(Bytes(Head(attributeValues))) % 65536, 2)
             \o Bytes(Head(attributeValues))
             \o encodeValues(Tail(attributeValues))

encodeAttributeValues(attributeValues) ==
    PutUint(Len(attributeValues), 4) \o encodeValues(attributeValues)

\* the header with the version in bytes 0-1, the instruction in byte 2 and
\* zero in byte 3
encodeHeader_VersionFirst(version, instruction, sequenceNum) ==
    PutUint(version % 65536, 2) \o <<instruction % 256, 0>> \o PutUint(sequenceNum, 4)

encodeHeader(version, instruction, sequenceNum) ==
    LET flags == (instruction % 256) + (version % 65536) * 65536
    IN  PutUint(flags, 4) \o PutUint(sequenceNum, 4)

\* the loop of WriteAttributeInstruction over indexValues
RECURSIVE encodeIndexValues(_)
encodeIndexValues(indexValues) ==
    IF indexValues = <<>> THEN <<>>
    ELSE PutUint(Head(indexValues), 8) \o encodeIndexValues(Tail(indexValues))

\* the bytes WriteInitInstruction, WriteUpdateInstruction,
\* WriteAttributeInstruction and WriteEndInstruction hand to session.Write;
\* WriteInitInstruction takes no sequence number and writes 1
EncodeInstruction(x) ==
    IF x.instruction = InitSymTable
    THEN encodeHeader(x.version, InitSymTable, 1) \o encodeAttributeValues(x.values)
    ELSE IF x.instruction = UpdateSymTable
    THEN encodeHeader(x.version, UpdateSymTable, x.seq) \o encodeAttributeValues(x.values)
    ELSE IF x.instruction = AddAttribute
    THEN encodeHeader(x.version, AddAttribute, x.seq)
             \o PutUint(Len(Bytes(x.name)) % 65536, 2)
             \o Bytes(x.name)
             \o PutUint(x.encoding % 65536, 2)
             \o PutUint(Len(x.ids), 4)
             \o encodeIndexValues(x.ids)
    ELSE encodeHeader(x.version, EndSymTable, x.seq)

\* decodeHeader; a read past the end of the slice panics
decodeHeader(raw) ==
    IF Len(raw) < 8
    THEN [err |-> "panic", version |-> 0, instruction |-> 0, sequenceNum |-> 0]
    ELSE LET flags == Uint(SubSeq(raw, 1, 4))
             version == (flags \div 65536) % 65536
             instruction == flags % 256
             sequenceNum == Uint(SubSeq(raw, 5, 8))
         IN  IF instruction >= NOPInstruction
             THEN [err |-> "MalformedRecord", version |-> 0, instruction |-> 0,
                   sequenceNum |-> 0]
             ELSE [err |-> "nil", version |-> version, instruction |-> instruction,
                   sequenceNum |-> sequenceNum]

\* the loop of decodeDictionaryInstructionParams
RECURSIVE decodeValues(_, _, _)
decodeValues(raw, numValues, values) ==
    IF numValues = 0 THEN [err |-> "nil", values |-> values]
    ELSE IF Len(raw) < 2 THEN [err |-> "panic", values |-> <<>>]
    ELSE LET valueLen == Uint(SubSeq(raw, 1, 2))
             rest == Drop(raw, 2)
         IN  IF Len(rest) < valueLen THEN [err |-> "panic", values |-> <<>>]
             ELSE decodeValues(Drop(rest, valueLen), numValues - 1,
                               Append(values, String(SubSeq(rest, 1, valueLen))))

decodeDictionaryInstructionParams(raw) ==
    IF Len(raw) < 4 THEN [err |-> "panic", values |-> <<>>]
    ELSE decodeValues(Drop(raw, 4), Uint(SubSeq(raw, 1, 4)), <<>>)

\* the loop of decodeAddAttributeInstructionParams
RECURSIVE decodeIndexValues(_, _, _)
decodeIndexValues(raw, numValues, values) ==
    IF numValues = 0 THEN [err |-> "nil", ids |-> values]
    ELSE IF Len(raw) < 8 THEN [err |-> "panic", ids |-> <<>>]
    ELSE decodeIndexValues(Drop(raw, 8), numValues - 1,
                           Append(values, Uint(SubSeq(raw, 1, 8))))

decodeAddAttributeInstructionParams(raw) ==
    LET failed == [err |-> "panic", name |-> "", encoding |-> 0, ids |-> <<>>] IN
    IF Len(raw) < 2 THEN failed
    ELSE LET attrNameLen == Uint(SubSeq(raw, 1, 2))
             raw1 == Drop(raw, 2)
         IN  IF Len(raw1) < attrNameLen + 6 THEN failed
             ELSE LET attrName == String(SubSeq(raw1, 1, attrNameLen))
                      raw2 == Drop(raw1, attrNameLen)
                      encodingType == Uint(SubSeq(raw2, 1, 2))
                      numValues == Uint(SubSeq(raw2, 3, 6))
                      d == decodeIndexValues(Drop(raw2, 6), numValues, <<>>)
                  IN  [err |-> d.err, name |-> attrName,
                       encoding |-> encodingType, ids |-> d.ids]

CodecVersions == {0, 1, 258, 32767}
CodecSeqs == {1, 2, 65539, 2147483647}
CodecIds == {0, 1, 256, 65536}
CodecValueLists == UNION {[1..k -> CodecStrings \ {"dc"}] : k \in 0..2}
CodecIdLists == UNION {[1..k -> CodecIds] : k \in 0..2}

\* what the callers of the four Write*Instruction methods can hand over
CodecInputs ==
    {Record(v, InitSymTable, 1, vs, "", 0, <<>>) :
         v \in CodecVersions, vs \in CodecValueLists}
    \cup {Record(v, UpdateSymTable, n, vs, "", 0, <<>>) :
              v \in CodecVersions, n \in CodecSeqs, vs \in CodecValueLists}
    \cup UNION {{Record(v, AddAttribute, n, <<>>, nm, e, ids) :
                     v \in CodecVersions, n \in CodecSeqs, ids \in CodecIdLists} :
                <<nm, e>> \in {"host", "dc", ""}
                                 \X {UnsignedNumericValue, DictionaryEncodedValue}}
    \cup {Record(v, EndSymTable, n, <<>>, "", 0, <<>>) :
              v \in CodecVersions, n \in CodecSeqs}

InitCodec ==
    /\ sym = NewSymTable(1, FALSE)
    /\ stream = <<>>
    /\ lastOp = NoOp
    /\ opCount = 0
    /\ calls = {}
    /\ rd = RdIdle
    /\ points = <<>>
    /\ family = NoFamily
    /\ otherTable = NoTable
    /\ bsi = NoIterator
    /\ WriterIdle
    /\ \E x \in CodecInputs : codec = [NoCodec EXCEPT !.pc = "input", !.x = x]
    /\ bs = NoThreads

CodecUnchanged ==
    UNCHANGED <<tableVars, stream, rd, writerVars, points, family, otherTable, bsi, bs>>

\* a Write*Instruction call up to the copy of the encoded bytes
CodecWrite ==
    /\ codec.pc = "input"
    /\ codec' = [codec EXCEPT !.pc = "written",
                              !.encodedData = EncodeInstruction(codec.x)]
    /\ CodecUnchanged

\* M3DBSymStreamReader.Next on the bytes written
CodecNext ==
    /\ codec.pc = "written"
    /\ LET h == IF Len(codec.encodedData) < 8
                THEN [err |-> "MalformedRecord", version |-> 0, instruction |-> 0,
                      sequenceNum |-> 0]
                ELSE decodeHeader(codec.encodedData)
       IN  codec' = [codec EXCEPT !.pc = "header", !.err = h.err,
                                  !.y = Record(h.version, h.instruction,
                                               h.sequenceNum, <<>>, "", 0, <<>>)]
    /\ CodecUnchanged

\* ReadInitInstruction, ReadUpdateInstruction or ReadAttributeInstruction,
\* whichever the instruction of the header asks for
CodecRead ==
    /\ codec.pc = "header"
    /\ codec.err = "nil"
    /\ codec.y.instruction \in {InitSymTable, UpdateSymTable, AddAttribute}
    /\ IF codec.y.instruction = AddAttribute
       THEN LET p == decodeAddAttributeInstructionParams(Drop(codec.encodedData, 8))
            IN  codec' = [codec EXCEPT !.pc = "decoded", !.err = p.err,
                                       !.y.name = p.name,
                                       !.y.encoding = p.encoding,
                                       !.y.ids = p.ids]
       ELSE LET p == decodeDictionaryInstructionParams(Drop(codec.encodedData, 8))
            IN  codec' = [codec EXCEPT !.pc = "decoded", !.err = p.err,
                                       !.y.values = p.values]
    /\ CodecUnchanged

NextCodec ==
    \/ CodecWrite
    \/ CodecNext
    \/ CodecRead

SpecCodec == InitCodec /\ [][NextCodec]_vars

\* C25: the decoder returns what the encoder was given: the header read by
\* Next has the version, the sequence number and the instruction kind of
\* the instruction written, and the parameters read after it are the value
\* list, or the attribute name, the encoding type and the value ids.
C25_CodecRoundTrip ==
    /\ codec.pc = "header" =>
           /\ codec.err = "nil"
           /\ codec.y.version = codec.x.version
           /\ codec.y.seq = codec.x.seq
           /\ codec.y.instruction = codec.x.instruction
    /\ codec.pc = "decoded" =>
           /\ codec.err = "nil"
           /\ codec.y = codec.x

\* an AddAttribute instruction with two value ids, a version of two bytes
\* and a sequence number of four bytes has been decoded
C25_Witness ==
    /\ codec.pc = "decoded"
    /\ codec.x.instruction = AddAttribute
    /\ codec.x.version = 32767
    /\ codec.x.seq = 2147483647
    /\ codec.x.name = "host"
    /\ codec.x.ids = <<256, 65536>>
    /\ codec.y = codec.x

\* C26: the instruction written starts with a header of 8 bytes: bytes 0-1
\* the version, byte 2 the instruction, byte 3 zero, bytes 4-7 the sequence
\* number, each little-endian.
C26_HeaderLayout ==
    codec.pc = "written" =>
        /\ Len(codec.encodedData) >= 8
        /\ SubSeq(codec.encodedData, 1, 2) = PutUint(codec.x.version, 2)
        /\ codec.encodedData[3] = codec.x.instruction
        /\ codec.encodedData[4] = 0
        /\ SubSeq(codec.encodedData, 5, 8) = PutUint(codec.x.seq, 4)

(***************************************************************************)
(* SpecLock: threads call WriteValueWithTaggedAttributes and               *)
(* fetchOrCreateSymTable of one BoostSession.  sym is the table of the     *)
(* series in the cache of the session once bs.cached holds; the stream may *)
(* hold what an earlier session wrote.                                     *)
(***************************************************************************)
Threads == {"t1", "t2"}

\* the thread is outside the session
ThreadIdle ==
    [pc |-> "idle", call |-> 0, attributes |-> <<>>,
     r |-> [err |-> "nil", annotation |-> NoAnnotation]]

\* the symbol-table stream an earlier session left behind
EarlierStream ==
    WriteValueWithTaggedAttributes(NewSymTable(1, TRUE), [host |-> "a"],
                                   <<"host">>, <<"host">>).emit

InitLock ==
    /\ sym = NewSymTable(1, TRUE)
    /\ stream \in {<<>>, EarlierStream}
    /\ lastOp = NoOp
    /\ opCount = 0
    /\ calls = {}
    /\ rd = RdIdle
    /\ points = <<>>
    /\ family = NoFamily
    /\ otherTable = NoTable
    /\ bsi = NoIterator
    /\ codec = NoCodec
    /\ WriterIdle
    /\ bs = [NoThreads EXCEPT !.threads = [t \in Threads |-> ThreadIdle]]

\* as LockFree, for a mutex that lets every caller in
LockFree_Always(b) == TRUE

\* sync.Mutex.Lock returns when the mutex is free
LockFree(b) == b.rwControl = 0

\* bs.rwControl.Lock() of WriteValueWithTaggedAttributes
LockWrite(t) ==
    /\ bs.threads[t].pc = "idle"
    /\ opCount < MaxOps
    /\ LockFree(bs)
    /\ bs' = [bs EXCEPT !.rwControl = opCount + 1,
                        !.threads[t].pc = "writeLocked",
                        !.threads[t].call = opCount + 1]
    /\ opCount' = opCount + 1
    /\ UNCHANGED <<sym, stream, lastOp, calls, rd, writerVars, points, family,
                   otherTable, bsi, codec>>

\* WriteValueWithTaggedAttributes from the cache lookup to the annotation
WriteMetadata(t) ==
    /\ bs.threads[t].pc = "writeLocked"
    /\ \E attributes \in AttributeMaps :
       \E symbolOrder, attributeOrder \in IterationOrders(DOMAIN attributes) :
           LET symTable == IF bs.cached THEN sym ELSE NewSymTable(1, TRUE)
               r == WriteValueWithTaggedAttributes(symTable, attributes,
                                                   symbolOrder, attributeOrder)
           IN  /\ sym' = r.sym
               /\ stream' = stream \o r.emit
               /\ lastOp' = [NoOp EXCEPT !.op = "WriteValueWithTaggedAttributes",
                                         !.err = r.err,
                                         !.attributes = attributes]
               /\ calls' = calls \cup {<<"WriteValueWithTaggedAttributes", r.err>>}
               /\ bs' = [bs EXCEPT !.cached = TRUE,
                                   !.threads[t].pc = "writeUnlock",
                                   !.threads[t].attributes = attributes,
                                   !.threads[t].r = [err |-> r.err,
                                                     annotation |-> r.annotation]]
    /\ UNCHANGED <<opCount, rd, writerVars, points, family, otherTable, bsi, codec>>

\* bs.rwControl.Unlock() and the return of WriteValueWithTaggedAttributes:
\* the error return, or the go statement and the nil return
WriteUnlock(t) ==
    /\ bs.threads[t].pc = "writeUnlock"
    /\ points' = Dispatch(points, bs.threads[t].r, bs.threads[t].attributes)
    /\ bs' = [bs EXCEPT !.rwControl = 0,
                        !.threads[t] = ThreadIdle,
                        !.dispatched = IF bs.threads[t].r.err # "nil" THEN @
                                       ELSE Append(@, bs.threads[t].call)]
    /\ UNCHANGED <<tableVars, stream, rd, writerVars, family, otherTable, bsi, codec>>

\* bs.rwControl.Lock() of fetchOrCreateSymTable
LockFetch(t) ==
    /\ bs.threads[t].pc = "idle"
    /\ opCount < MaxOps
    /\ LockFree(bs)
    /\ bs' = [bs EXCEPT !.rwControl = opCount + 1,
                        !.threads[t].pc = "fetchLocked",
                        !.threads[t].call = opCount + 1]
    /\ opCount' = opCount + 1
    /\ UNCHANGED <<sym, stream, lastOp, calls, rd, writerVars, points, family,
                   otherTable, bsi, codec>>

\* fetchOrCreateSymTable: the cache lookup and, on a miss, the call of
\* readSymTableStream
FetchGet(t) ==
    /\ bs.threads[t].pc = "fetchLocked"
    /\ rd.pc = "idle"
    /\ IF bs.cached
       THEN /\ bs' = [bs EXCEPT !.threads[t].pc = "fetchUnlock"]
            /\ UNCHANGED rd
       ELSE /\ bs' = [bs EXCEPT !.threads[t].pc = "fetchReading"]
            /\ rd' = [RdIdle EXCEPT !.pc = "findInit", !.version = RequestedVersion]
    /\ UNCHANGED <<tableVars, stream, writerVars, points, family, otherTable, bsi, codec>>

\* fetchOrCreateSymTable: readSymTableStream has returned; its table goes
\* into the cache unless it returned an error
FetchAdd(t) ==
    /\ bs.threads[t].pc = "fetchReading"
    /\ rd.pc = "done"
    /\ rd' = RdIdle
    /\ IF rd.err # "nil"
       THEN /\ bs' = [bs EXCEPT !.threads[t].pc = "fetchUnlock",
                                !.threads[t].r.err = rd.err]
            /\ UNCHANGED sym
       ELSE /\ bs' = [bs EXCEPT !.threads[t].pc = "fetchUnlock", !.cached = TRUE]
            /\ sym' = rd.symTable
    /\ UNCHANGED <<stream, lastOp, opCount, calls, writerVars, points, family,
                   otherTable, bsi, codec>>

\* the deferred bs.rwControl.Unlock() of fetchOrCreateSymTable
FetchUnlock(t) ==
    /\ bs.threads[t].pc = "fetchUnlock"
    /\ bs' = [bs EXCEPT !.rwControl = 0, !.threads[t] = ThreadIdle]
    /\ UNCHANGED <<tableVars, stream, rd, writerVars, points, family, otherTable,
                   bsi, codec>>

NextLock ==
    \/ \E t \in Threads : LockWrite(t)
    \/ \E t \in Threads : WriteMetadata(t)
    \/ \E t \in Threads : WriteUnlock(t)
    \/ \E t \in Threads : LockFetch(t)
    \/ \E t \in Threads : FetchGet(t)
    \/ \E t \in Threads : FetchAdd(t)
    \/ \E t \in Threads : FetchUnlock(t)
    \/ RdFindInit
    \/ RdLoop
    \/ SessionWriteTagged
    \/ SessionCompletion

SpecLock == InitLock /\ [][NextLock]_vars

\* the threads between Lock and Unlock
InMetadataPhase == {t \in DOMAIN bs.threads : bs.threads[t].pc # "idle"}

\* C32: at most one thread is between Lock and Unlock, and it is the thread
\* of the call that holds the mutex; the mutex is free when no thread is;
\* the call that holds the mutex is not one whose data-point write has yet
\* to return; and a step that changes the table, the stream or the cache is
\* a step of the thread that holds the mutex.
C32_MutexInv ==
    /\ Cardinality(InMetadataPhase) <= 1
    /\ \A t \in InMetadataPhase : bs.rwControl = bs.threads[t].call
    /\ InMetadataPhase = {} => bs.rwControl = 0
    /\ \A i \in DOMAIN points : ~points[i].written => bs.rwControl # bs.dispatched[i]

C32_MutationStep ==
    (sym' # sym \/ stream' # stream \/ bs'.cached # bs.cached) =>
        /\ bs.rwControl # 0
        /\ \E t \in InMetadataPhase :
               /\ bs.threads[t].call = bs.rwControl
               /\ bs'.threads[t] # bs.threads[t]

C32_MutualExclusion == []C32_MutexInv /\ [][C32_MutationStep]_vars

\* one thread is in the metadata phase of a write while the data-point write
\* of an earlier call runs, and a write has failed and given the mutex back
C32_Witness ==
    /\ \E t \in DOMAIN bs.threads : bs.threads[t].pc = "writeUnlock"
    /\ \E i \in DOMAIN points : ~points[i].written
    /\ <<"WriteValueWithTaggedAttributes", "UnresolvedAttribute">> \in calls
    /\ bs.cached

(***************************************************************************)
(* SpecDispatch: a SymTable with an M3DBSymStreamWriter.  Every record the *)
(* table emits is encoded into the scratch buffer of the writer, copied,   *)
(* stamped with the time of the call and handed to a goroutine, which      *)
(* writes it to the underlying session.  tasks[i] is the goroutine of      *)
(* stream[i].                                                              *)
(***************************************************************************)
RECURSIVE MaxOf(_)
MaxOf(S) ==
    IF S = {} THEN 0
    ELSE LET m == CHOOSE m \in S : TRUE
             n == MaxOf(S \ {m})
         IN  IF m > n THEN m ELSE n

\* the latest time xtime.Now() has returned so far
Clock(ts) ==
    MaxOf({ts[i].t : i \in DOMAIN ts} \cup {ts[i].now : i \in DOMAIN ts})

\* what xtime.Now() can return next: time does not run backwards
Now(ts) == {Clock(ts), Clock(ts) + 1}

\* su.encodingSpace after the calls made so far (all zero at first); a call
\* overwrites as many bytes as it encodes
RECURSIVE EncodingSpace(_)
EncodingSpace(ts) ==
    IF ts = <<>> THEN <<>>
    ELSE LET before == EncodingSpace(SubSeq(ts, 1, Len(ts) - 1))
             data == ts[Len(ts)].encodedData
         IN  IF Len(before) > Len(data) THEN data \o Drop(before, Len(data))
             ELSE data

\* the goroutine a Write*Instruction call starts for record x at time t
NewTask(x, t) ==
    [pc |-> "spawned", instruction |-> x.instruction, err |-> "nil",
     completion |-> "none",
     x |-> x,                                \* the record of the call
     t |-> t,                                \* xtime.Now() of the call
     encodedData |-> EncodeInstruction(x),   \* the copy made by the call
     now |-> 0,                              \* the time the goroutine ran session.Write
     written |-> [t |-> -1, annotation |-> <<>>]]   \* what session.Write was given

\* the Write*Instruction calls for the records of one SymTable call, each
\* with its own reading of the clock
RECURSIVE Spawn(_, _, _)
Spawn(ts, emit, times) ==
    IF emit = <<>> THEN ts
    ELSE Spawn(Append(ts, NewTask(Head(emit), Head(times))), Tail(emit), Tail(times))

\* as SessionWriteArguments, with the timestamp taken inside the goroutine
SessionWriteArguments_StampInWorker(task, space, now) ==
    [t |-> now, annotation |-> task.encodedData]

\* as SessionWriteArguments, with the bytes read from the scratch buffer
SessionWriteArguments_SharedBuffer(task, space, now) ==
    [t |-> task.t, annotation |-> SubSeq(space, 1, Len(task.encodedData))]

\* the timestamp and the annotation the goroutine passes to su.session.Write:
\* its parameters t and encodedData
SessionWriteArguments(task, space, now) ==
    [t |-> task.t, annotation |-> task.encodedData]

\* the results of the calls a user of the table can make
TableCallResults(t) ==
    {UpdateDictionary(t, vs) : vs \in ValueLists}
    \cup {InsertAttributeValue(t, nm, v) : nm \in Names, v \in Values}
    \cup {InsertAttributeIndices(t, nm, ids) : nm \in Names, ids \in IdLists}

\* a call of UpdateDictionary, InsertAttributeValue or InsertAttributeIndices
\* with the Write*Instruction calls it makes
DispatchCall ==
    /\ opCount < MaxOps
    /\ \E r \in TableCallResults(sym) :
       \E times \in [1..Len(r.emit) -> Now(tasks) \cup {Clock(tasks) + 2}] :
           /\ Len(tasks) + Len(r.emit) <= MaxWrites
           /\ \A i \in DOMAIN times :
                  times[i] \in (IF i = 1 THEN Now(tasks)
                                ELSE {times[i - 1], times[i - 1] + 1})
           /\ sym' = r.sym
           /\ stream' = stream \o r.emit
           /\ tasks' = Spawn(tasks, r.emit, times)
           /\ calls' = calls \cup {<<"call", r.err>>}
    /\ opCount' = opCount + 1
    /\ UNCHANGED <<lastOp, rd, points, pendingWrites, wait, family, otherTable,
                   bsi, codec, bs>>

\* the goroutine: su.pendingWrites.Add(1)
DispatchIncrement ==
    \E i \in DOMAIN tasks :
        /\ tasks[i].pc = "spawned"
        /\ pendingWrites' = pendingWrites + 1
        /\ tasks' = [tasks EXCEPT ![i].pc = "writing"]
        /\ UNCHANGED <<tableVars, stream, rd, points, wait, family, otherTable,
                       bsi, codec, bs>>

\* the goroutine: su.session.Write, su.pendingWrites.Add(-1) and the
\* completion function
DispatchWrite ==
    \E i \in DOMAIN tasks, now \in Now(tasks), err \in {"nil", "Underlying"} :
        /\ tasks[i].pc = "writing"
        /\ pendingWrites' = pendingWrites - 1
        /\ tasks' = [tasks EXCEPT
               ![i].pc = "done",
               ![i].err = err,
               ![i].now = now,
               ![i].written = SessionWriteArguments(tasks[i], EncodingSpace(tasks), now),
               ![i].completion =
                   IF tasks[i].instruction \in {InitSymTable, UpdateSymTable}
                   THEN err ELSE "nil"]
        /\ UNCHANGED <<tableVars, stream, rd, points, wait, family, otherTable,
                       bsi, codec, bs>>

NextDispatch ==
    \/ DispatchCall
    \/ DispatchIncrement
    \/ DispatchWrite

SpecDispatch == InitWriter /\ [][NextDispatch]_vars

\* the records whose goroutine has called session.Write
Written == {i \in DOMAIN tasks : tasks[i].pc = "done"}

\* C33: of two records of the table that were written, the one with the
\* lower sequence number has a timestamp that is not later, in whatever
\* order the goroutines ran.
C33_TimestampsFollowSeq ==
    \A i, j \in Written :
        tasks[i].x.seq < tasks[j].x.seq => tasks[i].written.t <= tasks[j].written.t

\* two records were written in the reverse of the order of their calls, at
\* different times
C33_Witness ==
    \E i, j \in Written :
        /\ tasks[i].x.seq < tasks[j].x.seq
        /\ tasks[i].t < tasks[j].t
        /\ tasks[i].now > tasks[j].now

\* C34: the bytes a goroutine hands to session.Write are the bytes of the
\* record of the call that started it, also when later calls have encoded
\* other records into the scratch buffer.
C34_WrittenBytesOfOwnCall ==
    \A i \in Written :
        tasks[i].written.annotation = EncodeInstruction(stream[i])

\* a record was written after a later call had overwritten the scratch
\* buffer with other bytes
C34_Witness ==
    \E i \in Written :
        /\ i < Len(tasks)
        /\ tasks[i].now >= tasks[Len(tasks)].t
        /\ tasks[i].written.annotation = EncodeInstruction(stream[i])
        /\ SubSeq(EncodingSpace(tasks), 1, Len(tasks[i].encodedData))
               # tasks[i].encodedData

====
